---- MODULE Spec2Model ----
(***************************************************************************)
(* Verification model of rw-access/nes-rs.                                 *)
(*                                                                         *)
(* Two granularities are modelled.                                         *)
(*                                                                         *)
(*  - Frame level (console.rs, snapshot.rs): a Console owns a              *)
(*    ConsoleState, a RewindTape, a Screen and the in_rewind flag.  At     *)
(*    this level a ConsoleState is represented by what one frame of        *)
(*    simulation can depend on: the latched button mask, PPUMASK, the      *)
(*    cartridge program, and the sequence of masks the state was           *)
(*    simulated under (its frame history).  wait_vblank is a               *)
(*    deterministic function of the ConsoleState.                          *)
(*                                                                         *)
(*  - Bus level (cpu.rs, ppu.rs, controller.rs, cartridge.rs): the CPU     *)
(*    address decoder, the PPU register file and dot stepper, the          *)
(*    controller and the mapper, with their concrete fields.               *)
(***************************************************************************)
EXTENDS Integers, Sequences, FiniteSets, TLC

VARIABLES
    console,    \* console.rs Console {state, tape, screen, in_rewind}
    other,      \* a second Console (the target of restore_snapshot)
    pushed,     \* history: states handed to push_back, oldest first
    popped,     \* history: results of pop_back (<<>> = None, <<s>> = Some(s))
    phase,      \* "push", "pop" (only pops since the pushes) or "mixed"
    resim,      \* the pair pop_back re-simulated in its last call (<<>> if none)
    synced,     \* other has just restored snapshot(console)
    aborted,    \* the process panicked
    cpu,        \* cpu.rs CPU (bus level)
    bus,        \* bus.rs MemoryBus {mapper, ppu, controller} (bus level)
    pixels,     \* ppu.rs Screen.pixels the PPU renders into (bus level)
    last_op,    \* history: the last bus-level operation, what it returned
                \* and the cpu and bus it started from
    ops,        \* history: number of bus-level operations so far
    strobed,    \* history: <<>>, or <<[mask, reads]>> with the bytes read
                \* from $4016 since the last write 1, write 0 to $4016
    banked,     \* history: <<>>, or <<d>> for the data of the most recent
                \* CPU write to $8000-$FFFF
    call,       \* position of the caller inside Console::next_screen:
                \* "idle" (not in a call), "leave" (first loop of
                \* wait_vblank) or "seek" (its second loop), and whether
                \* in_vblank has been false during the call; history:
                \* the value of dots when the call was made
    dots,       \* history: number of PPU::step calls so far
    nmi_log,    \* history: NMI edges raised, NMI entries taken, whether
                \* the last ConsoleState::step raised an edge and whether
                \* it was an NMI entry
    returns,    \* history: for each return of next_screen, oldest first,
                \* the PPU frame counter, whether in_vblank was false
                \* during the call and whether it is true at the return
    marks,      \* history: the value of dots at each increment of the PPU
                \* frame counter, oldest first
    saved       \* the ConsoleState the host holds from Console::snapshot:
                \* <<>>, or <<[cpu, bus]>> (bus level)

frame_vars == <<console, other, pushed, popped, phase, resim, synced>>

step_vars == <<call, dots, nmi_log, returns, marks>>

bus_vars == <<cpu, bus, pixels, last_op, ops, strobed, banked, step_vars,
              saved>>

vars == <<console, other, pushed, popped, phase, resim, synced, aborted,
          cpu, bus, pixels, last_op, ops, strobed, banked,
          call, dots, nmi_log, returns, marks, saved>>

(***************************************************************************)
(* Bounds                                                                  *)
(***************************************************************************)
\* frames a console is simulated for
MaxFrames == 7

\* largest initial_step a tape is created with
MaxInitialStep == 2

\* button masks fed by the host
MaxButton == 1

\* frames each of the two consoles of SpecRestore is simulated for
MaxRestoreFrames == 2

\* frames the cartridge program keeps rendering disabled after reset
MaxWarmup == 1

ButtonSamples == 0..MaxButton

InitialStepSamples == 1..MaxInitialStep

WarmupSamples == 0..MaxWarmup

(***************************************************************************)
(* Program constants                                                       *)
(***************************************************************************)
U8_MAX == 255

\* PPUMASK show_background | show_sprites
MASK_SHOW == 24

(***************************************************************************)
(* Sequence helpers                                                        *)
(***************************************************************************)
Last(s) == s[Len(s)]

Front(s) == SubSeq(s, 1, Len(s) - 1)

RECURSIVE SumCounts(_)
SumCounts(rle) ==
    IF rle = <<>> THEN 0 ELSE rle[1].count + SumCounts(Tail(rle))

(***************************************************************************)
(* ConsoleState at frame level                                             *)
(***************************************************************************)
\* PPU::rendering_enabled: show_background (bit 3) or show_sprites (bit 4)
rendering_enabled(mask_reg) == (mask_reg \div 8) % 4 # 0

\* The PPUMASK value the cartridge program holds during frame n: rendering
\* stays off (the reset value 0) for the program's warm-up frames.
ProgramMask(rom, n) == IF n > rom THEN MASK_SHOW ELSE 0

\* Console::new: PPU::reset and CPU::reset on default components
ResetState(rom) ==
    [button_state |-> 0, mask_reg |-> 0, rom |-> rom, hist |-> <<>>]

\* Controller::update_buttons
Controller_update_buttons(state, b) == [state EXCEPT !.button_state = b]

\* ConsoleState::wait_vblank: simulate up to the next positive vblank edge.
\* The frame is simulated under the latched mask; the program's PPUMASK
\* write for this frame takes effect during it.
wait_vblank(state) ==
    [state EXCEPT !.hist = Append(@, state.button_state),
                  !.mask_reg = ProgramMask(state.rom, Len(state.hist) + 1)]

\* Screen::default
DefaultScreen == <<>>

\* The pixels PPU::render_pixel writes during the frame that ends in `next':
\* every visible dot is written when rendering is enabled, none otherwise
\* (PPU::step_visible returns early).  A rendered screen is identified by the
\* frame that drew it.
RenderFrame(next, screen) ==
    IF rendering_enabled(next.mask_reg) THEN <<next.hist>> ELSE screen

(***************************************************************************)
(* RewindTape                                                              *)
(***************************************************************************)
\* RewindTape::new
RewindTape_new(initial_step) ==
    [stored_checkpoints |-> <<>>,
     previous_checkpoint |-> << <<>>, <<>> >>,
     snapshot_cache |-> <<>>,
     cache_size |-> initial_step,
     frames |-> 0]

\* the head run extended whatever its count
PackButtons_unbounded(buttons_rle, next_buttons) ==
    IF buttons_rle # <<>> /\ buttons_rle[1].buttons = next_buttons
    THEN [buttons_rle EXCEPT ![1].count = @ + 1]
    ELSE <<[buttons |-> next_buttons, count |-> 1]>> \o buttons_rle

\* push_back, the match on buttons_rle.front_mut(): extend the head run or
\* prepend a new run of count 1
PackButtons(buttons_rle, next_buttons) ==
    IF /\ buttons_rle # <<>>
       /\ buttons_rle[1].buttons = next_buttons
       /\ buttons_rle[1].count < U8_MAX
    THEN [buttons_rle EXCEPT ![1].count = @ + 1]
    ELSE <<[buttons |-> next_buttons, count |-> 1]>> \o buttons_rle

\* push_back, first half: move one expanded snapshot of the previous
\* checkpoint into its RLE list, storing the checkpoint when none is left
PackPrevious(tape) ==
    LET decoded_snapshots == tape.previous_checkpoint[1]
        buttons_rle == tape.previous_checkpoint[2]
    IN  IF decoded_snapshots = <<>> THEN tape
        ELSE LET base_state == Last(decoded_snapshots)[1]
                 next_buttons == Last(decoded_snapshots)[2]
                 rest == Front(decoded_snapshots)
             IN  IF rest = <<>>
                 THEN [tape EXCEPT
                         !.stored_checkpoints =
                             Append(@, [base_state |-> base_state,
                                        buttons_rle |-> buttons_rle]),
                         !.previous_checkpoint = << <<>>, <<>> >>]
                 ELSE [tape EXCEPT
                         !.previous_checkpoint =
                             <<rest, PackButtons(buttons_rle, next_buttons)>>]

\* the rollover without the growth of cache_size
CacheFrame_fixed_size(tape, state) ==
    LET buttons == state.button_state
    IN  IF Len(tape.snapshot_cache) < tape.cache_size
        THEN [tape EXCEPT !.snapshot_cache = Append(@, <<state, buttons>>)]
        ELSE [tape EXCEPT
                !.previous_checkpoint = <<tape.snapshot_cache, <<>> >>,
                !.snapshot_cache = << <<state, buttons>> >>]

\* push_back, second half: append to the snapshot cache, rolling a full
\* cache over into the previous-checkpoint working area
CacheFrame(tape, state) ==
    LET buttons == state.button_state
    IN  IF Len(tape.snapshot_cache) < tape.cache_size
        THEN [tape EXCEPT !.snapshot_cache = Append(@, <<state, buttons>>)]
        ELSE [tape EXCEPT
                !.previous_checkpoint = <<tape.snapshot_cache, <<>> >>,
                !.cache_size = @ + 1,
                !.snapshot_cache = << <<state, buttons>> >>]

\* RewindTape::push_back
push_back(tape, state) ==
    [CacheFrame(PackPrevious(tape), state) EXCEPT !.frames = @ + 1]

\* pop_back: how a used run is consumed
ConsumeRun(buttons_rle) ==
    IF buttons_rle[1].count > 0
    THEN [buttons_rle EXCEPT ![1].count = @ - 1]
    ELSE Tail(buttons_rle)

\* pop_back, after the cache pop: pull the decoded previous checkpoint into
\* the cache when the cache became empty
PullDecoded(tape) ==
    IF tape.snapshot_cache = <<>> /\ tape.previous_checkpoint[1] # <<>>
    THEN [tape EXCEPT
            !.snapshot_cache = tape.previous_checkpoint[1],
            !.previous_checkpoint = << <<>>, <<>> >>,
            !.cache_size = @ - 1]
    ELSE tape

\* pop_back, the match on (decoded_snapshots.last(), buttons_rle.front_mut()).
\* Yields the tape, the screen the re-simulated frame rendered into, and the
\* re-simulated pair.
Decompress(tape, screen) ==
    LET decoded_snapshots == tape.previous_checkpoint[1]
        buttons_rle == tape.previous_checkpoint[2]
    IN  IF decoded_snapshots # <<>> /\ buttons_rle # <<>>
        THEN LET prev_state == Last(decoded_snapshots)[1]
                 next_buttons == buttons_rle[1]
                 next_state ==
                     wait_vblank(Controller_update_buttons(
                         prev_state, next_buttons.buttons))
             IN  [tape |-> [tape EXCEPT
                     !.previous_checkpoint =
                         <<Append(decoded_snapshots,
                                  <<next_state, next_buttons.buttons>>),
                           ConsumeRun(buttons_rle)>>],
                  screen |-> RenderFrame(next_state, screen),
                  resim |-> << <<next_state, next_buttons.buttons>> >>]
        ELSE IF tape.stored_checkpoints # <<>>
        THEN LET checkpoint == Last(tape.stored_checkpoints)
             IN  [tape |-> [tape EXCEPT
                     !.stored_checkpoints = Front(@),
                     !.previous_checkpoint =
                         << << <<checkpoint.base_state,
                                 checkpoint.base_state.button_state>> >>,
                            checkpoint.buttons_rle >>],
                  screen |-> screen,
                  resim |-> <<>>]
        ELSE [tape |-> tape, screen |-> screen, resim |-> <<>>]

\* RewindTape::pop_back.  result is <<>> for None and <<state>> for Some.
\* frames is a usize: its value is kept modulo 2^64 by its signed
\* representative, so the wrapped value of 0 - 1 is written -1.
pop_back(tape, screen) ==
    IF tape.snapshot_cache = <<>>
    THEN [tape |-> tape, screen |-> screen, resim |-> <<>>, result |-> <<>>]
    ELSE LET latest_snapshot == Last(tape.snapshot_cache)[1]
             d == Decompress(
                    PullDecoded([tape EXCEPT !.snapshot_cache = Front(@)]),
                    screen)
         IN  [tape |-> [d.tape EXCEPT !.frames = @ - 1],
              screen |-> d.screen,
              resim |-> d.resim,
              result |-> <<latest_snapshot>>]

\* `self.frames -= 1` on frames = 0: a panic in a build with overflow checks
FramesUnderflow(tape) == tape.snapshot_cache # <<>> /\ tape.frames = 0

(***************************************************************************)
(* Console                                                                 *)
(***************************************************************************)
\* Console::new (RewindTape::new takes the step as its argument)
Console_new(initial_step, rom) ==
    [state |-> ResetState(rom),
     tape |-> RewindTape_new(initial_step),
     screen |-> DefaultScreen,
     in_rewind |-> FALSE]

\* Console::update_buttons
Console_update_buttons(c, b) ==
    [c EXCEPT !.state = Controller_update_buttons(@, b)]

\* Console::next_screen
Console_next_screen(c) ==
    LET next == wait_vblank(c.state)
    IN  [state |-> next,
         tape |-> IF ~c.in_rewind THEN push_back(c.tape, next) ELSE c.tape,
         screen |-> RenderFrame(next, c.screen),
         in_rewind |-> FALSE]

\* Console::rewind
Console_rewind(c) ==
    LET r == pop_back(c.tape, c.screen)
    IN  IF r.result # <<>>
        THEN [state |-> r.result[1], tape |-> r.tape,
              screen |-> r.screen, in_rewind |-> TRUE]
        ELSE [c EXCEPT !.tape = r.tape, !.screen = r.screen]

\* Console::snapshot
Console_snapshot(c) == c.state

\* Console::restore_snapshot with empty preserve lists: nothing is read
\* back, the state is replaced, nothing is written
Console_restore_snapshot(c, snapshot) == [c EXCEPT !.state = snapshot]

(***************************************************************************)
(* Bit arithmetic on unsigned integers                                     *)
(***************************************************************************)
RECURSIVE BitAnd(_, _)
BitAnd(a, b) ==
    IF a = 0 \/ b = 0 THEN 0
    ELSE (a % 2) * (b % 2) + 2 * BitAnd(a \div 2, b \div 2)

BitOr(a, b) == a + b - BitAnd(a, b)

BitXor(a, b) == a + b - 2 * BitAnd(a, b)

\* bit n of v
Bit(v, n) == (v \div (2 ^ n)) % 2

(***************************************************************************)
(* Zero-initialised byte arrays.  An array is kept as the function from    *)
(* the indices of its non-zero bytes to their values, so that equal        *)
(* arrays are equal functions.                                             *)
(***************************************************************************)
\* `let r = v; F(r)': v is computed once, whatever number of times F uses
\* its parameter
Bind(v, F(_)) == CHOOSE y \in {F(r) : r \in {v}} : TRUE

ZeroMem == [i \in {} |-> 0]

MemGet(mem, i) == IF i \in DOMAIN mem THEN mem[i] ELSE 0

MemPut(mem, i, v) ==
    IF v = 0
    THEN [x \in (DOMAIN mem) \ {i} |-> mem[x]]
    ELSE [x \in (DOMAIN mem) \cup {i} |-> IF x = i THEN v ELSE mem[x]]

\* the array whose byte i is bytes[i + 1], for a sequence of bytes
MemOfBytes(bytes) ==
    [i \in {j \in 0..(Len(bytes) - 1) : bytes[j + 1] # 0} |-> bytes[i + 1]]

(***************************************************************************)
(* Cartridge and mapper (cartridge.rs)                                     *)
(***************************************************************************)
\* sizes of a PRG bank and of a CHR bank
PRG_BANK_SIZE == 16384

CHR_BANK_SIZE == 8192

\* Contents of the PRG ROM image: byte `offset' of bank `bank'
PrgByte(bank, offset) == (offset + 64 * bank + 1) % 256

\* Byte `offset' of PRG bank `bank' of the image in mapper m: the bytes of
\* the cartridge's program where it has some, the pattern elsewhere
RomByte(m, bank, offset) ==
    IF offset \in DOMAIN m.program THEN m.program[offset]
    ELSE PrgByte(bank, offset)

\* Contents of CHR bank 0 of a CHR-ROM image
ChrRomByte(address) == (address \div 16 + 1) % 256

\* cartridge::new for mapper ids 0 (NROM, which wraps a UxROM) and 2 (UxROM);
\* UxROM::new.  chr holds bank 0 of a CHR-RAM (zeroed by the loader).
Mapper_new(cartridge) ==
    [mapper_id |-> cartridge.mapper_id,
     prg_banks |-> cartridge.prg_banks,
     chr_ram |-> cartridge.chr_ram,
     mirror |-> cartridge.mirror,
     program |-> cartridge.program,
     chr |-> ZeroMem,
     first_bank |-> 0,
     last_bank |-> cartridge.prg_banks - 1]

\* UxROM::read (NROM::read delegates to it)
UxROM_read(m, address) ==
    IF address < 8192
    THEN [value |-> IF m.chr_ram THEN MemGet(m.chr, address)
                    ELSE ChrRomByte(address),
          aborted |-> FALSE]
    ELSE IF address < 32768
    THEN [value |-> 0, aborted |-> FALSE]
    ELSE IF address < 49152
    THEN IF m.first_bank < m.prg_banks
         THEN [value |-> RomByte(m, m.first_bank, address % PRG_BANK_SIZE),
               aborted |-> FALSE]
         ELSE [value |-> 0, aborted |-> TRUE]
    ELSE [value |-> RomByte(m, m.last_bank, address % PRG_BANK_SIZE),
          aborted |-> FALSE]

\* UxROM::write
UxROM_write(m, address, data) ==
    IF address < 8192
    THEN IF m.chr_ram THEN [m EXCEPT !.chr = MemPut(@, address, data)] ELSE m
    ELSE IF address < 32768
    THEN m
    ELSE [m EXCEPT !.first_bank = BitAnd(data, 15)]

\* NROM::write
NROM_write(m, address, data) ==
    IF address < 8192 THEN UxROM_write(m, address, data) ELSE m

\* dyn Mapper dispatch
Mapper_read(m, address) == UxROM_read(m, address)

Mapper_write(m, address, data) ==
    IF m.mapper_id = 0 THEN NROM_write(m, address, data)
    ELSE UxROM_write(m, address, data)

Mapper_mirror(m) == m.mirror

\* UxROM::read_page (NROM::read_page delegates to it).  page is <<>> for
\* None and <<bytes>> for Some; slicing bank[start..stop] panics when
\* start > stop or the bank does not exist, and a slice that is not 256
\* bytes long converts to None.
UxROM_read_page(m, page) ==
    LET bank_start == (page * 256) % PRG_BANK_SIZE
        bank_stop == (bank_start + 256) % PRG_BANK_SIZE
        bank == IF page < 192 THEN m.first_bank ELSE m.last_bank
    IN  IF page < 128
        THEN [page |-> <<>>, aborted |-> FALSE]
        ELSE IF bank >= m.prg_banks \/ bank_start > bank_stop
        THEN [page |-> <<>>, aborted |-> TRUE]
        ELSE IF bank_stop - bank_start # 256
        THEN [page |-> <<>>, aborted |-> FALSE]
        ELSE [page |-> << [i \in 1..256 |->
                              RomByte(m, bank, bank_start + i - 1)] >>,
              aborted |-> FALSE]

(***************************************************************************)
(* Controller (controller.rs)                                              *)
(***************************************************************************)
\* Controller::default
Controller_default == [button_state |-> 0, strobe |-> FALSE, index |-> 0]

Controller_read_msb_first(c) ==
    IF c.index < 8
    THEN [controller |-> [c EXCEPT !.index =
                              IF ~c.strobe THEN c.index + 1 ELSE c.index],
          value |-> Bit(c.button_state, 7 - c.index)]
    ELSE [controller |-> c, value |-> 0]

\* Controller::read: the controller after the read and the byte returned
Controller_read(c) ==
    IF c.index < 8
    THEN [controller |-> [c EXCEPT !.index =
                              IF ~c.strobe THEN c.index + 1 ELSE c.index],
          value |-> Bit(c.button_state, c.index)]
    ELSE [controller |-> c, value |-> 0]

\* the strobe latched without the cursor reset
Controller_write_keeps_index(c, data) ==
    [c EXCEPT !.strobe = (data % 2 = 1)]

\* Controller::write
Controller_write(c, data) ==
    LET strobe == (data % 2 = 1)
    IN  [c EXCEPT !.strobe = strobe,
                  !.index = IF strobe THEN 0 ELSE @]

(***************************************************************************)
(* PPU memory and register file (ppu.rs)                                   *)
(***************************************************************************)
RAM_LEN == 2048

NAMETABLES_LEN == 2048

\* u16 arithmetic
U16 == 65536

\* TileData::default
TileData_default ==
    [nametable_index |-> 0, palette |-> 0, pattern_low |-> 0,
     pattern_high |-> 0]

\* ParsedSprite::from(&[u8; 4])
ParsedSprite_from(raw) ==
    [top_y |-> raw[1],
     tile_index |-> raw[2],
     palette |-> raw[3] % 4,
     behind_background |-> Bit(raw[3], 5) = 1,
     flip_horizontal |-> Bit(raw[3], 6) = 1,
     flip_vertical |-> Bit(raw[3], 7) = 1,
     left_x |-> raw[4]]

\* ProcessedSprite::default
ProcessedSprite_default ==
    [sprite |-> [top_y |-> 0, tile_index |-> 0, palette |-> 0,
                 behind_background |-> FALSE, flip_horizontal |-> FALSE,
                 flip_vertical |-> FALSE, left_x |-> 0],
     tile |-> TileData_default]

\* PPU::default followed by PPU::reset.  last_read is <<>> for None and
\* <<register>> for Some(register).
PPU_reset ==
    [cycle_in_scanline |-> 0, scanline |-> 0, frame |-> 0,
     control_reg |-> 0, status_reg |-> 0, mask_reg |-> 0, oam_addr |-> 0,
     buffered_ppu_data |-> 0, v |-> 0, t |-> 0, w |-> FALSE,
     in_vblank |-> FALSE, fine_x |-> 0,
     oam |-> ZeroMem,
     secondary_oam |-> [i \in 0..31 |-> 0],
     palette_ram |-> [i \in 0..31 |-> 0],
     nametables |-> ZeroMem,
     pending_nmi |-> FALSE,
     pending_tile |-> TileData_default,
     processed_tile |-> <<TileData_default, TileData_default>>,
     processed_sprites |-> [i \in 0..7 |-> ProcessedSprite_default],
     sprite_zero_in_line |-> FALSE,
     last_read |-> <<>>]

\* VRAMAddress::from(u16)
VRAMAddress_from(raw) ==
    [coarse_x |-> raw % 32,
     coarse_y |-> (raw \div 32) % 32,
     nametable |-> (raw \div 1024) % 4,
     fine_y |-> (raw \div 4096) % 8]

\* u16::from(VRAMAddress)
VRAMAddress_into(a) ==
    a.coarse_x + 32 * a.coarse_y + 1024 * a.nametable + 4096 * a.fine_y

\* PPUControl::from, the fields used
vram_increment(control_reg) == IF Bit(control_reg, 2) = 1 THEN 32 ELSE 1

enable_nmi(control_reg) == Bit(control_reg, 7) = 1

\* PPU::mirror_nametable
PPU_mirror_nametable(addr, mode) ==
    LET nametable_offset == addr % 1024
        mirroring ==
            CASE mode = "Horizontal" -> <<0, 0, 1, 1>>
              [] mode = "Vertical" -> <<0, 1, 0, 1>>
              [] mode = "SingleScreenLowerBank" -> <<0, 0, 0, 0>>
              [] mode = "FourScreen" -> <<0, 1, 2, 3>>
              [] mode = "SingleScreenUpperBank" -> <<0, 0, 0, 0>>
        nametable_select == (addr \div 1024) % 4
    IN  mirroring[nametable_select + 1] * 1024 + nametable_offset

\* PPU::mirror_palette
PPU_mirror_palette(offset) ==
    IF BitAnd(offset, 19) = 16 THEN BitAnd(offset, 255 - 16) ELSE offset

\* PPU::read_byte: the byte read, or a panic on an index outside nametables
PPU_read_byte(ppu, mapper, addr) ==
    IF addr < 8192
    THEN Mapper_read(mapper, addr)
    ELSE IF addr < 16128
    THEN LET i == PPU_mirror_nametable(addr, Mapper_mirror(mapper))
         IN  IF i < NAMETABLES_LEN
             THEN [value |-> MemGet(ppu.nametables, i), aborted |-> FALSE]
             ELSE [value |-> 0, aborted |-> TRUE]
    ELSE [value |-> ppu.palette_ram[PPU_mirror_palette(addr % 32)],
          aborted |-> FALSE]

\* PPU::write_byte
PPU_write_byte(ppu, mapper, addr, data) ==
    IF addr < 8192
    THEN [ppu |-> ppu, mapper |-> Mapper_write(mapper, addr, data),
          aborted |-> FALSE]
    ELSE IF addr < 16128
    THEN LET i == PPU_mirror_nametable(addr, Mapper_mirror(mapper))
         IN  IF i < NAMETABLES_LEN
             THEN [ppu |-> [ppu EXCEPT !.nametables = MemPut(@, i, data)],
                   mapper |-> mapper, aborted |-> FALSE]
             ELSE [ppu |-> ppu, mapper |-> mapper, aborted |-> TRUE]
    ELSE [ppu |-> [ppu EXCEPT
                     !.palette_ram[PPU_mirror_palette(addr % 32)] = data],
          mapper |-> mapper, aborted |-> FALSE]

\* the register a CPU address selects in read_register / write_register
PPU_register(addr) == BitOr(8192, BitAnd(addr, 15))

\* PPU::read_register: the PPU after the read (last_read and
\* buffered_ppu_data are Cells) and the byte returned
PPU_read_register(ppu, mapper, addr) ==
    LET reg == PPU_register(addr)
        latched == [ppu EXCEPT !.last_read = <<reg>>]
    IN  IF reg = 8194
        THEN [ppu |-> latched, value |-> ppu.status_reg, aborted |-> FALSE]
        ELSE IF reg = 8196
        THEN [ppu |-> latched, value |-> MemGet(ppu.oam, ppu.oam_addr),
              aborted |-> FALSE]
        ELSE IF reg = 8199
        THEN LET contents == PPU_read_byte(ppu, mapper, ppu.v)
             IN  IF contents.aborted
                 THEN [ppu |-> latched, value |-> 0, aborted |-> TRUE]
                 ELSE IF ppu.v <= 16127
                 THEN [ppu |-> [latched EXCEPT
                                  !.buffered_ppu_data = contents.value],
                       value |-> ppu.buffered_ppu_data,
                       aborted |-> FALSE]
                 ELSE IF ppu.v <= 16383
                 THEN LET under == PPU_read_byte(ppu, mapper,
                                                 BitXor(ppu.v, 4096))
                      IN  [ppu |-> [latched EXCEPT
                                      !.buffered_ppu_data = under.value],
                           value |-> contents.value,
                           aborted |-> under.aborted]
                 ELSE [ppu |-> latched, value |-> contents.value,
                       aborted |-> FALSE]
        ELSE [ppu |-> latched, value |-> 0, aborted |-> FALSE]

\* PPU::write_register; the arm `_ => unreachable!()' panics
PPU_write_register(ppu, mapper, addr, data) ==
    LET reg == PPU_register(addr)
        ok(p) == [ppu |-> p, mapper |-> mapper, aborted |-> FALSE]
        t == VRAMAddress_from(ppu.t)
    IN  CASE reg = 8192 ->
               ok([ppu EXCEPT
                     !.pending_nmi =
                         IF /\ ppu.in_vblank
                            /\ ~enable_nmi(ppu.control_reg)
                            /\ enable_nmi(data)
                         THEN TRUE ELSE @,
                     !.control_reg = data,
                     !.t = VRAMAddress_into(
                               [t EXCEPT !.nametable = data % 4])])
          [] reg = 8193 -> ok([ppu EXCEPT !.mask_reg = data])
          [] reg = 8195 -> ok([ppu EXCEPT !.oam_addr = data])
          [] reg = 8196 ->
               ok([ppu EXCEPT !.oam = MemPut(@, ppu.oam_addr, data),
                              !.oam_addr = (@ + 1) % 256])
          [] reg = 8197 ->
               IF ~ppu.w
               THEN ok([ppu EXCEPT
                          !.w = TRUE,
                          !.t = VRAMAddress_into(
                                    [t EXCEPT !.coarse_x = data \div 8]),
                          !.fine_x = data % 8])
               ELSE ok([ppu EXCEPT
                          !.w = FALSE,
                          !.t = VRAMAddress_into(
                                    [t EXCEPT !.coarse_y = data \div 8,
                                              !.fine_y = data % 8])])
          [] reg = 8198 ->
               IF ~ppu.w
               THEN ok([ppu EXCEPT
                          !.w = TRUE,
                          !.t = BitOr(BitAnd(ppu.t, 33023),
                                      BitAnd(data * 256, 32512))])
               ELSE LET nt == BitOr(BitAnd(ppu.t, 65280), data)
                    IN  ok([ppu EXCEPT !.t = nt, !.v = nt, !.w = FALSE])
          [] reg = 8199 ->
               LET wr == PPU_write_byte(ppu, mapper, ppu.v, data)
               IN  [ppu |-> [wr.ppu EXCEPT
                               !.v = (ppu.v + vram_increment(
                                                 ppu.control_reg)) % U16],
                    mapper |-> wr.mapper,
                    aborted |-> wr.aborted]
          [] OTHER -> [ppu |-> ppu, mapper |-> mapper, aborted |-> TRUE]

\* PPU::write_dma; page is <<>> for None and <<bytes>> for Some
PPU_write_dma(ppu, page) ==
    IF page = <<>>
    THEN [ppu EXCEPT !.oam = ZeroMem]
    ELSE [ppu EXCEPT !.oam =
            MemOfBytes([j \in 1..256 |->
                page[1][((j - 1 - ppu.oam_addr + 256) % 256) + 1]])]

(***************************************************************************)
(* PPU dot stepper (ppu.rs)                                                *)
(***************************************************************************)
\* TileData::color
TileData_color(tile, x) ==
    2 * Bit(tile.pattern_high, 7 - x) + Bit(tile.pattern_low, 7 - x)

\* ProcessedSprite::color
ProcessedSprite_color(ps, x) ==
    TileData_color(ps.tile, IF ps.sprite.flip_horizontal THEN 7 - x ELSE x)

\* ParsedSprite::is_empty
ParsedSprite_is_empty(sp) ==
    sp.top_y = 255 /\ sp.tile_index = 255 /\ sp.left_x = 255

\* PPU::multiplex_colors: <<decision, color>>
PPU_multiplex_colors(tile_palette, tile_palette_offset, sprite_palette, sprite_palette_offset, sprite_in_background) ==
    LET decision ==
            IF tile_palette = 0
            THEN IF sprite_palette = 0 THEN "DrawBackground"
                 ELSE "DrawSprite"
            ELSE IF sprite_palette = 0 THEN "DrawTile"
            ELSE IF sprite_in_background THEN "DrawTile" ELSE "DrawSprite"
    IN  <<decision,
          CASE decision = "DrawBackground" -> 0
            [] decision = "DrawTile" ->
                   BitOr(tile_palette_offset, tile_palette)
            [] decision = "DrawSprite" ->
                   BitOr(sprite_palette_offset, sprite_palette)>>

\* render_pixel, the loop over processed_sprites from index idx on
RECURSIVE MatchingSprite(_, _, _)
MatchingSprite(ppu, x, idx) ==
    LET none == [palette |-> 0, pos |-> 0, offset |-> 0, in_bg |-> FALSE]
    IN  IF idx > 7 THEN none
        ELSE LET ps == ppu.processed_sprites[idx]
                 left == ps.sprite.left_x
             IN  IF ParsedSprite_is_empty(ps.sprite) THEN none
                 ELSE IF /\ x >= left
                         /\ x < left + 8
                         /\ ProcessedSprite_color(ps, x - left) # 0
                 THEN [palette |-> ProcessedSprite_color(ps, x - left),
                       pos |-> idx,
                       offset |-> ps.sprite.palette * 4,
                       in_bg |-> ps.sprite.behind_background]
                 ELSE MatchingSprite(ppu, x, idx + 1)

\* PPU::render_pixel; the sprite gate reads the control register through
\* PPUMask::from (show_sprites is bit 4)
PPU_render_pixel(ppu, screen) ==
    LET x == ppu.cycle_in_scanline - 1
        y == ppu.scanline
        fine_x == (x % 8) + ppu.fine_x
        tile == ppu.processed_tile[IF fine_x >= 8 THEN 2 ELSE 1]
        tile_palette == TileData_color(tile, fine_x % 8)
        tile_palette_offset == (tile.palette % 4) * 4
        sp == IF Bit(ppu.control_reg, 4) = 1
              THEN MatchingSprite(ppu, x, 0)
              ELSE [palette |-> 0, pos |-> 0, offset |-> 0, in_bg |-> FALSE]
        mux == PPU_multiplex_colors(tile_palette, tile_palette_offset,
                                    sp.palette, BitOr(16, sp.offset),
                                    sp.in_bg)
        zero_hit == /\ ppu.sprite_zero_in_line
                    /\ sp.pos = 0
                    /\ mux[1] = "DrawSprite"
    IN  [ppu |-> [ppu EXCEPT !.status_reg =
                     BitOr(@, IF zero_hit THEN 64 ELSE 0)],
         screen |-> MemPut(screen, <<y, x>>,
                           ppu.palette_ram[PPU_mirror_palette(mux[2])])]

\* PPU::fetch_background_tile
PPU_fetch_background_tile(ppu, mapper) ==
    LET phase8 == ppu.cycle_in_scanline % 8
        v == ppu.v
        pattern_table == Bit(ppu.control_reg, 4) * 4096
        nametable_index == ppu.pending_tile.nametable_index * 16
        fine_y == VRAMAddress_from(v).fine_y
        rd(addr) == PPU_read_byte(ppu, mapper, addr)
    IN  CASE phase8 = 0 ->
               [ppu |-> [ppu EXCEPT !.processed_tile =
                            <<ppu.processed_tile[2], ppu.pending_tile>>],
                aborted |-> FALSE]
          [] phase8 = 1 ->
               LET r == rd(BitOr(8192, BitAnd(v, 4095)))
               IN  [ppu |-> [ppu EXCEPT
                               !.pending_tile.nametable_index = r.value],
                    aborted |-> r.aborted]
          [] phase8 = 3 ->
               LET attr_address ==
                       BitOr(BitOr(9152, BitAnd(v, 3072)),
                             BitOr(BitAnd(v \div 16, 56),
                                   BitAnd(v \div 4, 7)))
                   r == rd(attr_address)
                   attr_shift == BitOr(BitAnd(v, 64) \div 16, BitAnd(v, 2))
               IN  [ppu |-> [ppu EXCEPT !.pending_tile.palette =
                               (r.value \div (2 ^ attr_shift)) % 4],
                    aborted |-> r.aborted]
          [] phase8 = 5 ->
               LET r == rd(BitOr(BitOr(pattern_table, nametable_index),
                                 fine_y))
               IN  [ppu |-> [ppu EXCEPT !.pending_tile.pattern_low = r.value],
                    aborted |-> r.aborted]
          [] phase8 = 7 ->
               LET r == rd(BitOr(BitOr(pattern_table, nametable_index),
                                 BitOr(8, fine_y)))
               IN  [ppu |-> [ppu EXCEPT !.pending_tile.pattern_high = r.value],
                    aborted |-> r.aborted]
          [] OTHER -> [ppu |-> ppu, aborted |-> FALSE]

\* find_sprites_in_line, the scan of the 64 primary sprites from idx on.
\* acc = [secondary_oam, count, overflow, zero]
RECURSIVE ScanSprites(_, _, _, _)
ScanSprites(ppu, sprite_height, idx, acc) ==
    IF idx > 63 THEN acc
    ELSE LET top_y == MemGet(ppu.oam, 4 * idx)
             y == ppu.scanline
         IN  IF y >= top_y /\ y < top_y + sprite_height
             THEN IF acc.count = 8
                  THEN [acc EXCEPT !.overflow = TRUE]
                  ELSE Bind([secondary_oam |->
                                 [i \in 0..31 |->
                                     IF i \div 4 = acc.count
                                     THEN MemGet(ppu.oam, 4 * idx + (i % 4))
                                     ELSE acc.secondary_oam[i]],
                             count |-> acc.count + 1,
                             overflow |-> acc.overflow,
                             zero |-> acc.zero \/ idx = 0],
                            LAMBDA found :
                              ScanSprites(ppu, sprite_height, idx + 1, found))
             ELSE ScanSprites(ppu, sprite_height, idx + 1, acc)

\* PPU::find_sprites_in_line
PPU_find_sprites_in_line(ppu) ==
    LET sprite_height == IF Bit(ppu.control_reg, 5) = 1 THEN 16 ELSE 8
    IN  Bind(ScanSprites(ppu, sprite_height, 0,
                 [secondary_oam |-> [i \in 0..31 |-> 255],
                  count |-> 0, overflow |-> FALSE, zero |-> FALSE]),
             LAMBDA found :
               [ppu EXCEPT
                  !.secondary_oam = found.secondary_oam,
                  !.sprite_zero_in_line = found.zero,
                  !.status_reg = BitOr(BitAnd(@, 32),
                                       IF found.overflow THEN 32 ELSE 0)])

\* step_visible at dot 320, one secondary-OAM slot: the processed sprite and
\* whether its u8/u16 arithmetic overflowed (values are the wrapped ones)
FetchSprite(ppu, mapper, idx) ==
    LET raw == [k \in 1..4 |-> ppu.secondary_oam[4 * idx + k - 1]]
        sprite == ParsedSprite_from(raw)
        tall == Bit(ppu.control_reg, 5) = 1
        sprite_height == IF tall THEN 16 ELSE 8
        y == ppu.scanline
        bank == IF tall THEN sprite.tile_index % 2
                ELSE Bit(ppu.control_reg, 3)
        pattern_table_address == bank * 4096
        index0 == IF tall THEN BitAnd(sprite.tile_index, 254)
                  ELSE sprite.tile_index
        dy == ((y - sprite.top_y) % U16) % 256
        tile_y0 == IF sprite.flip_vertical
                   THEN (sprite_height - 1 - dy) % 256
                   ELSE dy
        index1 == (index0 + (IF tile_y0 >= 8 THEN 1 ELSE 0)) % 256
        tile_y == tile_y0 % 8
        tile_address_lo ==
            BitOr(BitOr(pattern_table_address, index1 * 16), tile_y)
        tile_address_hi == BitOr(tile_address_lo, 8)
    IN  IF raw = <<255, 255, 255, 255>>
        THEN [sprite |-> [sprite |-> sprite,
                          tile |-> ppu.processed_sprites[idx].tile],
              overflow |-> FALSE]
        ELSE [sprite |->
                 [sprite |-> sprite,
                  tile |-> [nametable_index |-> 0,
                            palette |-> sprite.palette,
                            pattern_low |->
                                Mapper_read(mapper, tile_address_lo).value,
                            pattern_high |->
                                Mapper_read(mapper, tile_address_hi).value]],
              overflow |-> \/ y < sprite.top_y
                           \/ (sprite.flip_vertical /\ dy > sprite_height - 1)
                           \/ (index0 = 255 /\ tile_y0 >= 8)]

\* step_visible at dot 320: the sprite fetches of the eight slots
PPU_fetch_sprites(ppu, mapper) ==
    [ppu |-> [ppu EXCEPT !.processed_sprites =
                 [idx \in 0..7 |-> FetchSprite(ppu, mapper, idx).sprite]],
     overflow |-> \E idx \in 0..7 : FetchSprite(ppu, mapper, idx).overflow]

\* VRAMAddress::increment_x
VRAMAddress_increment_x(a) ==
    IF a.coarse_x < 31 THEN [a EXCEPT !.coarse_x = @ + 1]
    ELSE [a EXCEPT !.nametable = BitXor(@, 1), !.coarse_x = 0]

\* VRAMAddress::increment_y
VRAMAddress_increment_y(a) ==
    IF a.fine_y < 7 THEN [a EXCEPT !.fine_y = @ + 1]
    ELSE IF a.coarse_y < 29
    THEN [a EXCEPT !.fine_y = 0, !.coarse_y = @ + 1]
    ELSE [a EXCEPT !.fine_y = 0, !.coarse_y = 0,
                   !.nametable = BitXor(@, 2)]

\* VRAMAddress::copy_x
VRAMAddress_copy_x(a, o) ==
    [a EXCEPT !.coarse_x = o.coarse_x,
              !.nametable = BitOr(BitAnd(@, 2), BitAnd(o.nametable, 1))]

\* VRAMAddress::copy_y
VRAMAddress_copy_y(a, o) ==
    [a EXCEPT !.coarse_y = o.coarse_y,
              !.fine_y = o.fine_y,
              !.nametable = BitOr(BitAnd(@, 1), BitAnd(o.nametable, 2))]

\* PPU::update_vram_addr
PPU_update_vram_addr(ppu) ==
    LET c == ppu.cycle_in_scanline
        a == VRAMAddress_from(ppu.v)
        t == VRAMAddress_from(ppu.t)
    IN  IF ~rendering_enabled(ppu.mask_reg) THEN ppu
        ELSE IF c = 256
        THEN [ppu EXCEPT !.v = VRAMAddress_into(VRAMAddress_increment_y(a))]
        ELSE IF c = 257
        THEN [ppu EXCEPT !.v = VRAMAddress_into(VRAMAddress_copy_x(a, t))]
        ELSE IF ppu.scanline = 261 /\ c >= 280 /\ c <= 304
        THEN [ppu EXCEPT !.v = VRAMAddress_into(VRAMAddress_copy_y(a, t))]
        ELSE IF ((c >= 1 /\ c <= 256) \/ c >= 328) /\ c % 8 = 0
        THEN [ppu EXCEPT !.v = VRAMAddress_into(VRAMAddress_increment_x(a))]
        ELSE ppu

\* PPU::step_visible
PPU_step_visible(ppu, mapper, screen) ==
    LET c == ppu.cycle_in_scanline
        done(p, s, ab, ov) ==
            Bind(p, LAMBDA q :
                [ppu |-> PPU_update_vram_addr(q), screen |-> s,
                 aborted |-> ab, overflow |-> ov])
    IN  IF ~rendering_enabled(ppu.mask_reg)
        THEN [ppu |-> ppu, screen |-> screen, aborted |-> FALSE,
              overflow |-> FALSE]
        ELSE IF c >= 1 /\ c <= 256
        THEN Bind(PPU_render_pixel(ppu, screen), LAMBDA r :
             Bind(PPU_fetch_background_tile(r.ppu, mapper), LAMBDA f :
                done(f.ppu, r.screen, f.aborted, FALSE)))
        ELSE IF c = 257
        THEN done(PPU_find_sprites_in_line(ppu), screen, FALSE, FALSE)
        ELSE IF c = 320
        THEN Bind(PPU_fetch_sprites(ppu, mapper), LAMBDA f :
                done(f.ppu, screen, FALSE, f.overflow))
        ELSE IF c >= 321 /\ c <= 336
        THEN Bind(PPU_fetch_background_tile(ppu, mapper), LAMBDA f :
                done(f.ppu, screen, f.aborted, FALSE))
        ELSE done(ppu, screen, FALSE, FALSE)

\* PPU::step_vblank
PPU_step_vblank(ppu) ==
    IF ppu.scanline = 241 /\ ppu.cycle_in_scanline = 1
    THEN [ppu EXCEPT !.in_vblank = TRUE,
                     !.status_reg = BitOr(@, 128),
                     !.pending_nmi = enable_nmi(ppu.control_reg)]
    ELSE ppu

\* PPU::step_pre_render
PPU_step_pre_render(ppu, mapper) ==
    LET c == ppu.cycle_in_scanline
    IN  Bind(IF c = 1
             THEN [ppu EXCEPT !.status_reg = BitAnd(@, 63),
                              !.in_vblank = FALSE,
                              !.pending_nmi = FALSE]
             ELSE ppu, LAMBDA p1 :
        IF ~rendering_enabled(p1.mask_reg)
        THEN [ppu |-> p1, aborted |-> FALSE]
        ELSE IF (c >= 1 /\ c <= 256) \/ (c >= 321 /\ c <= 336)
        THEN Bind(PPU_fetch_background_tile(p1, mapper), LAMBDA f :
             Bind(f.ppu, LAMBDA q :
                [ppu |-> PPU_update_vram_addr(q), aborted |-> f.aborted]))
        ELSE [ppu |-> PPU_update_vram_addr(p1), aborted |-> FALSE])

PPU_update_cycle_no_skip(ppu) ==
    IF ppu.cycle_in_scanline < 340
    THEN [ppu EXCEPT !.cycle_in_scanline = @ + 1]
    ELSE IF ppu.scanline < 261
    THEN [ppu EXCEPT !.scanline = @ + 1, !.cycle_in_scanline = 0]
    ELSE [ppu EXCEPT !.frame = @ + 1, !.scanline = 0,
                     !.cycle_in_scanline = 0]

\* PPU::update_cycle
PPU_update_cycle(ppu) ==
    IF ppu.cycle_in_scanline < 340
    THEN [ppu EXCEPT !.cycle_in_scanline = @ + 1]
    ELSE IF ppu.scanline < 261
    THEN [ppu EXCEPT !.scanline = @ + 1, !.cycle_in_scanline = 0]
    ELSE [ppu EXCEPT
            !.frame = @ + 1,
            !.scanline = 0,
            !.cycle_in_scanline =
                IF rendering_enabled(ppu.mask_reg) /\ (ppu.frame + 1) % 2 = 1
                THEN 1 ELSE 0]

\* PPU::step, the deferred effects of the last register read
PPU_apply_last_read(ppu) ==
    [(IF ppu.last_read = <<8194>>
      THEN [ppu EXCEPT !.w = FALSE, !.status_reg = BitAnd(@, 127)]
      ELSE IF ppu.last_read = <<8199>>
      THEN [ppu EXCEPT !.v = (@ + vram_increment(ppu.control_reg)) % U16]
      ELSE ppu)
     EXCEPT !.last_read = <<>>]

\* PPU::step: the PPU and the screen after one dot, whether the step
\* panicked on an index, and whether its integer arithmetic overflowed
PPU_step(ppu, mapper, screen) ==
    Bind(PPU_apply_last_read(ppu), LAMBDA p0 :
    Bind(IF p0.scanline <= 239
         THEN PPU_step_visible(p0, mapper, screen)
         ELSE IF p0.scanline = 240
         THEN [ppu |-> p0, screen |-> screen, aborted |-> FALSE,
               overflow |-> FALSE]
         ELSE IF p0.scanline <= 260
         THEN [ppu |-> PPU_step_vblank(p0), screen |-> screen,
               aborted |-> FALSE, overflow |-> FALSE]
         ELSE Bind(PPU_step_pre_render(p0, mapper), LAMBDA q :
                [ppu |-> q.ppu, screen |-> screen,
                 aborted |-> q.aborted, overflow |-> FALSE]),
         LAMBDA r :
    Bind(r.ppu, LAMBDA p1 :
        [ppu |-> PPU_update_cycle(p1), screen |-> r.screen,
         aborted |-> r.aborted, overflow |-> r.overflow])))

(***************************************************************************)
(* CPU address decoder (cpu.rs)                                            *)
(***************************************************************************)
\* CPU::default
CPU_default ==
    [cycles |-> 0, pc |-> 0, a |-> 0, x |-> 0, y |-> 0, status |-> 0,
     sp |-> 0, ram |-> ZeroMem]

RamIndex_unmirrored(addr) == addr

\* the cell of the 2 KiB work RAM a CPU address below $2000 selects
RamIndex(addr) == addr % RAM_LEN

\* MemoryBus after Console::new (the APU is a stub without state)
MemoryBus_new(cartridge) ==
    [mapper |-> Mapper_new(cartridge),
     ppu |-> PPU_reset,
     controller |-> Controller_default]

\* CPU::read_byte: the bus after the read (reads change Cells of the PPU and
\* of the controller) and the byte returned
CPU_read_byte(c, b, addr) ==
    IF addr <= 8191
    THEN [bus |-> b, value |-> MemGet(c.ram, RamIndex(addr)),
          aborted |-> FALSE]
    ELSE IF addr <= 16383
    THEN LET r == PPU_read_register(b.ppu, b.mapper, addr)
         IN  [bus |-> [b EXCEPT !.ppu = r.ppu], value |-> r.value,
              aborted |-> r.aborted]
    ELSE IF addr <= 16404
    THEN [bus |-> b, value |-> 0, aborted |-> FALSE]
    ELSE IF addr = 16406
    THEN LET r == Controller_read(b.controller)
         IN  [bus |-> [b EXCEPT !.controller = r.controller],
              value |-> r.value, aborted |-> FALSE]
    ELSE IF addr >= 16407 /\ addr <= 16415
    THEN [bus |-> b, value |-> 0, aborted |-> FALSE]
    ELSE LET r == Mapper_read(b.mapper, addr)
         IN  [bus |-> b, value |-> r.value, aborted |-> r.aborted]

\* CPU::read_page: slicing ram[page << 8..][..256] panics when the slice
\* does not lie inside the 2 KiB array
CPU_read_page(c, mapper, page) ==
    IF page <= 31
    THEN IF page * 256 + 256 <= RAM_LEN
         THEN [page |-> << [i \in 1..256 |->
                               MemGet(c.ram, page * 256 + i - 1)] >>,
               aborted |-> FALSE]
         ELSE [page |-> <<>>, aborted |-> TRUE]
    ELSE IF page <= 127
    THEN [page |-> <<>>, aborted |-> FALSE]
    ELSE UxROM_read_page(mapper, page)

\* CPU::write_byte
CPU_write_byte(c, b, addr, data) ==
    IF addr <= 8191
    THEN [cpu |-> [c EXCEPT !.ram = MemPut(@, RamIndex(addr), data)],
          bus |-> b, aborted |-> FALSE]
    ELSE IF addr <= 16383
    THEN LET r == PPU_write_register(b.ppu, b.mapper, addr, data)
         IN  [cpu |-> c,
              bus |-> [b EXCEPT !.ppu = r.ppu, !.mapper = r.mapper],
              aborted |-> r.aborted]
    ELSE IF addr <= 16403
    THEN [cpu |-> c, bus |-> b, aborted |-> FALSE]
    ELSE IF addr = 16404
    THEN LET page == CPU_read_page(c, b.mapper, data)
         IN  IF page.aborted
             THEN [cpu |-> c, bus |-> b, aborted |-> TRUE]
             ELSE [cpu |-> c,
                   bus |-> [b EXCEPT !.ppu = PPU_write_dma(@, page.page)],
                   aborted |-> FALSE]
    ELSE IF addr = 16406
    THEN [cpu |-> c,
          bus |-> [b EXCEPT !.controller = Controller_write(@, data)],
          aborted |-> FALSE]
    ELSE IF addr >= 16407 /\ addr <= 16415
    THEN [cpu |-> c, bus |-> b, aborted |-> FALSE]
    ELSE [cpu |-> c,
          bus |-> [b EXCEPT !.mapper = Mapper_write(@, addr, data)],
          aborted |-> FALSE]

(***************************************************************************)
(* CPU registers, stack, decoder and dispatcher (cpu.rs)                   *)
(***************************************************************************)
\* Bit positions of StatusFlags
FLAG_C == 0
FLAG_Z == 1
FLAG_I == 2
FLAG_B == 4
FLAG_U == 5
FLAG_V == 6
FLAG_N == 7

\* 2^n for a bit position n
Pow2(n) == IF n = 0 THEN 1 ELSE IF n = 1 THEN 2 ELSE IF n = 2 THEN 4
           ELSE IF n = 3 THEN 8 ELSE IF n = 4 THEN 16 ELSE IF n = 5 THEN 32
           ELSE IF n = 6 THEN 64 ELSE 128

\* CPU::check_status_bit
check_status_bit(c, bit) == Bit(c.status, bit) = 1

\* CPU::write_status_bit
write_status_bit(c, bit, value) ==
    LET cleared == c.status - Bit(c.status, bit) * Pow2(bit)
    IN  [c EXCEPT !.status = cleared + (IF value THEN Pow2(bit) ELSE 0)]

\* CPU::set_nz
set_nz(c, value) ==
    write_status_bit(write_status_bit(c, FLAG_N, value >= 128),
                     FLAG_Z, value = 0)

\* crosses_page_boundary
crosses_page_boundary(addr1, addr2) == (addr1 \div 256) # (addr2 \div 256)

\* The CPU and the bus a handler is working on, and whether it has panicked
Machine(c, b, abort) == [cpu |-> c, bus |-> b, aborted |-> abort]

\* CPU::read_address
CPU_read_address(c, b, addr) ==
    Bind(CPU_read_byte(c, b, addr), LAMBDA lo :
    Bind(CPU_read_byte(c, lo.bus, (addr + 1) % U16), LAMBDA hi :
        [bus |-> hi.bus, value |-> lo.value + 256 * hi.value,
         aborted |-> lo.aborted \/ hi.aborted]))

\* CPU::read_address_indirect: the high byte is fetched from the same page
CPU_read_address_indirect(c, b, addr) ==
    LET wrapped == (addr \div 256) * 256 + (((addr % 256) + 1) % 256)
    IN  Bind(CPU_read_byte(c, b, addr), LAMBDA lo :
        Bind(CPU_read_byte(c, lo.bus, wrapped), LAMBDA hi :
            [bus |-> hi.bus, value |-> lo.value + 256 * hi.value,
             aborted |-> lo.aborted \/ hi.aborted]))

\* CPU::push_byte
push_byte(st, data) ==
    Bind(CPU_write_byte(st.cpu, st.bus, 256 + st.cpu.sp, data), LAMBDA w :
        Machine([w.cpu EXCEPT !.sp = (@ + 255) % 256], w.bus,
                st.aborted \/ w.aborted))

\* CPU::pull_byte: the machine after the pull and the byte pulled
pull_byte(st) ==
    LET sp == (st.cpu.sp + 1) % 256
    IN  Bind(CPU_read_byte(st.cpu, st.bus, 256 + sp), LAMBDA r :
            [st |-> Machine([st.cpu EXCEPT !.sp = sp], r.bus,
                            st.aborted \/ r.aborted),
             value |-> r.value])

\* CPU::push_address: high byte first
push_address(st, addr) ==
    Bind(push_byte(st, addr \div 256), LAMBDA hi : push_byte(hi, addr % 256))

\* CPU::pull_address
pull_address(st) ==
    Bind(pull_byte(st), LAMBDA lo :
    Bind(pull_byte(lo.st), LAMBDA hi :
        [st |-> hi.st, value |-> lo.value + 256 * hi.value]))

\* CPU::reset
CPU_reset(c, b) ==
    Bind(CPU_read_address(c, b, 65532), LAMBDA vector :
    Bind([c EXCEPT !.a = 0, !.x = 0, !.y = 0, !.sp = 253,
                   !.status = Pow2(FLAG_I) + Pow2(FLAG_U),
                   !.pc = vector.value], LAMBDA c1 :
    Bind(CPU_write_byte(c1, vector.bus, 16405, 64), LAMBDA w15 :
    Bind(CPU_write_byte(w15.cpu, w15.bus, 16407, 64), LAMBDA w17 :
        Machine(w17.cpu, w17.bus,
                vector.aborted \/ w15.aborted \/ w17.aborted)))))

\* Rows of the EXTENDED_OPCODES table the sample programs execute: opcode,
\* addressing mode, base cycle count and page-boundary penalty of the
\* documented 6502 instruction set
EXTENDED_OPCODES(byte) ==
    LET Row(o, m, n, p) == [opcode |-> o, addressing_mode |-> m,
                            min_cycles |-> n, page_boundary_penalty |-> p]
    IN  CASE byte = 8 -> Row("PHP", "Implied", 3, FALSE)
          [] byte = 16 -> Row("BPL", "Relative", 2, FALSE)
          [] byte = 40 -> Row("PLP", "Implied", 4, FALSE)
          [] byte = 44 -> Row("BIT", "Absolute", 4, FALSE)
          [] byte = 48 -> Row("BMI", "Relative", 2, FALSE)
          [] byte = 64 -> Row("RTI", "Implied", 6, FALSE)
          [] byte = 80 -> Row("BVC", "Relative", 2, FALSE)
          [] byte = 105 -> Row("ADC", "Immediate", 2, FALSE)
          [] byte = 112 -> Row("BVS", "Relative", 2, FALSE)
          [] byte = 144 -> Row("BCC", "Relative", 2, FALSE)
          [] byte = 176 -> Row("BCS", "Relative", 2, FALSE)
          [] byte = 233 -> Row("SBC", "Immediate", 2, FALSE)
          [] byte = 76 -> Row("JMP", "Absolute", 3, FALSE)
          [] byte = 108 -> Row("JMP", "Indirect", 5, FALSE)
          [] byte = 133 -> Row("STA", "ZeroPage", 3, FALSE)
          [] byte = 141 -> Row("STA", "Absolute", 4, FALSE)
          [] byte = 162 -> Row("LDX", "Immediate", 2, FALSE)
          [] byte = 165 -> Row("LDA", "ZeroPage", 3, FALSE)
          [] byte = 169 -> Row("LDA", "Immediate", 2, FALSE)
          [] byte = 173 -> Row("LDA", "Absolute", 4, FALSE)
          [] byte = 189 -> Row("LDA", "AbsoluteIndexedX", 4, TRUE)
          [] byte = 202 -> Row("DEX", "Implied", 2, FALSE)
          [] byte = 208 -> Row("BNE", "Relative", 2, FALSE)
          [] byte = 232 -> Row("INX", "Implied", 2, FALSE)
          [] byte = 234 -> Row("NOP", "Implied", 2, FALSE)
          [] byte = 240 -> Row("BEQ", "Relative", 2, FALSE)
          [] OTHER -> Row("other", "Implied", 2, FALSE)

\* CPU::decode for the addressing modes of the rows above
CPU_decode(c, b, addr) ==
    Bind(CPU_read_byte(c, b, addr), LAMBDA opcode :
    LET operand_addr == (addr + 1) % U16
        ext == EXTENDED_OPCODES(opcode.value)
        mode == ext.addressing_mode
        Decoded(r, width, hit, final) ==
            [extended_opcode |-> ext, width |-> width,
             page_boundary_hit |-> hit, final_address |-> final,
             bus |-> r.bus, aborted |-> opcode.aborted \/ r.aborted]
    IN  IF mode = "Absolute"
        THEN Bind(CPU_read_address(c, opcode.bus, operand_addr),
                  LAMBDA address :
                    Decoded(address, 3, FALSE, <<address.value>>))
        ELSE IF mode = "Implied"
        THEN Decoded(opcode, 1, FALSE, <<>>)
        ELSE IF mode = "AbsoluteIndexedX"
        THEN Bind(CPU_read_address(c, opcode.bus, operand_addr),
                  LAMBDA indirect :
                    LET address == (indirect.value + c.x) % U16
                    IN  Decoded(indirect, 3,
                                ext.page_boundary_penalty
                                  /\ crosses_page_boundary(indirect.value,
                                                           address),
                                <<address>>))
        ELSE IF mode = "Immediate"
        THEN Decoded(opcode, 2, FALSE, <<operand_addr>>)
        ELSE IF mode = "Indirect"
        THEN Bind(CPU_read_address(c, opcode.bus, operand_addr),
                  LAMBDA indirect :
             Bind(CPU_read_address_indirect(c, indirect.bus, indirect.value),
                  LAMBDA address :
                    [Decoded(address, 3, FALSE, <<address.value>>)
                       EXCEPT !.aborted = @ \/ indirect.aborted]))
        ELSE IF mode = "Relative"
        THEN Bind(CPU_read_byte(c, opcode.bus, operand_addr),
                  LAMBDA offset :
                    LET next_pc == (addr + 2) % U16
                        address ==
                            IF offset.value >= 128
                            THEN (next_pc + U16 - (256 - offset.value)) % U16
                            ELSE (next_pc + offset.value) % U16
                    IN  Decoded(offset, 2, FALSE, <<address>>))
        ELSE Bind(CPU_read_byte(c, opcode.bus, operand_addr),
                  LAMBDA address :
                    Decoded(address, 2, FALSE, <<address.value>>)))

\* CPU::set_cnz
set_cnz(c, value) ==
    set_nz(write_status_bit(c, FLAG_C, Bit(value, 8) = 1), value % 256)

ADC_without_carry_in(c, b) ==
    LET sum == c.a + b
    IN  set_cnz(write_status_bit([c EXCEPT !.a = sum % 256], FLAG_V,
                    BitAnd(BitAnd(BitXor(c.a, sum), BitXor(b, sum)), 128)
                        # 0),
                sum)

\* The ADC arm of CPU::dispatch on the operand byte b
ADC(c, b) ==
    LET sum == c.a + b + (IF check_status_bit(c, FLAG_C) THEN 1 ELSE 0)
    IN  set_cnz(write_status_bit([c EXCEPT !.a = sum % 256], FLAG_V,
                    BitAnd(BitAnd(BitXor(c.a, sum), BitXor(b, sum)), 128)
                        # 0),
                sum)

\* The SBC arm of CPU::dispatch on the operand byte m; the subtraction
\* wraps in 16 bits and !m is the 16-bit complement
SBC(c, m) ==
    LET result == (c.a + 2 * U16 - m
                     - (IF check_status_bit(c, FLAG_C) THEN 0 ELSE 1)) % U16
        a8 == result % 256
    IN  write_status_bit(
            write_status_bit(set_nz([c EXCEPT !.a = a8], a8), FLAG_V,
                BitAnd(BitAnd(BitXor(c.a, result),
                              BitXor(U16 - 1 - m, result)), 128) # 0),
            FLAG_C, Bit(result, 8) = 0)

branch_on_flag_one_extra(c, flag, branch_status, new_pc) ==
    IF check_status_bit(c, flag) = branch_status
    THEN [c EXCEPT !.cycles = @ + 1, !.pc = new_pc]
    ELSE c

\* CPU::branch_on_flag
branch_on_flag(c, flag, branch_status, new_pc) ==
    IF check_status_bit(c, flag) = branch_status
    THEN [c EXCEPT !.cycles = @ + 1
                       + (IF crosses_page_boundary(c.pc, new_pc)
                          THEN 1 ELSE 0),
                   !.pc = new_pc]
    ELSE c

PHP_without_break(st) == push_byte(st, st.cpu.status)

\* The PHP arm of CPU::dispatch
PHP(st) == push_byte(st, BitOr(st.cpu.status, Pow2(FLAG_B)))

\* The PLP arm of CPU::dispatch
PLP(st) ==
    Bind(pull_byte(st), LAMBDA r :
        LET c == [r.st.cpu EXCEPT !.status = r.value]
        IN  [r.st EXCEPT !.cpu = write_status_bit(
                                    write_status_bit(c, FLAG_U, TRUE),
                                    FLAG_B, FALSE)])

\* CPU::dispatch for the opcodes of the rows above; an opcode that comes
\* without the operand its arm expects ends in unreachable!()
CPU_dispatch(st, opcode, addr) ==
    LET c == st.cpu
        Branch(flag, on) ==
            [st EXCEPT !.cpu = branch_on_flag(c, flag, on, addr[1])]
        Load(F(_)) ==
            Bind(CPU_read_byte(c, st.bus, addr[1]), LAMBDA operand :
                Machine(F(operand.value), operand.bus,
                        st.aborted \/ operand.aborted))
    IN  CASE opcode = "ADC" /\ addr # <<>> -> Load(LAMBDA m : ADC(c, m))
          [] opcode = "SBC" /\ addr # <<>> -> Load(LAMBDA m : SBC(c, m))
          [] opcode = "BCC" /\ addr # <<>> -> Branch(FLAG_C, FALSE)
          [] opcode = "BCS" /\ addr # <<>> -> Branch(FLAG_C, TRUE)
          [] opcode = "BVC" /\ addr # <<>> -> Branch(FLAG_V, FALSE)
          [] opcode = "BVS" /\ addr # <<>> -> Branch(FLAG_V, TRUE)
          [] opcode = "BEQ" /\ addr # <<>> -> Branch(FLAG_Z, TRUE)
          [] opcode = "BNE" /\ addr # <<>> -> Branch(FLAG_Z, FALSE)
          [] opcode = "BMI" /\ addr # <<>> -> Branch(FLAG_N, TRUE)
          [] opcode = "BPL" /\ addr # <<>> -> Branch(FLAG_N, FALSE)
          [] opcode = "BIT" /\ addr # <<>> ->
                Load(LAMBDA m :
                    write_status_bit(
                        write_status_bit(
                            write_status_bit(c, FLAG_Z, BitAnd(c.a, m) = 0),
                            FLAG_V, Bit(m, 6) = 1),
                        FLAG_N, Bit(m, 7) = 1))
          [] opcode = "DEX" /\ addr = <<>> ->
                LET x == (c.x + 255) % 256
                IN  [st EXCEPT !.cpu = set_nz([c EXCEPT !.x = x], x)]
          [] opcode = "INX" /\ addr = <<>> ->
                LET x == (c.x + 1) % 256
                IN  [st EXCEPT !.cpu = set_nz([c EXCEPT !.x = x], x)]
          [] opcode = "JMP" /\ addr # <<>> ->
                [st EXCEPT !.cpu.pc = addr[1]]
          [] opcode = "LDA" /\ addr # <<>> ->
                Load(LAMBDA m : set_nz([c EXCEPT !.a = m], m))
          [] opcode = "LDX" /\ addr # <<>> ->
                Load(LAMBDA m : set_nz([c EXCEPT !.x = m], m))
          [] opcode = "NOP" -> st
          [] opcode = "PHP" /\ addr = <<>> -> PHP(st)
          [] opcode = "PLP" /\ addr = <<>> -> PLP(st)
          [] opcode = "RTI" /\ addr = <<>> ->
                Bind(PLP(st), LAMBDA status :
                Bind(pull_address(status), LAMBDA r :
                    [r.st EXCEPT !.cpu.pc = r.value]))
          [] opcode = "STA" /\ addr # <<>> ->
                Bind(CPU_write_byte(c, st.bus, addr[1], c.a), LAMBDA w :
                    Machine(w.cpu, w.bus, st.aborted \/ w.aborted))
          [] OTHER -> [st EXCEPT !.aborted = TRUE]

\* PPU::read_nmi_line: the line is cleared by the read
PPU_read_nmi_line(ppu) ==
    [ppu |-> [ppu EXCEPT !.pending_nmi = FALSE], value |-> ppu.pending_nmi]

\* CPU::step: the machine after the step, the cycle count returned and
\* whether the step was the NMI entry
CPU_step(c, b) ==
    Bind(PPU_read_nmi_line(b.ppu), LAMBDA line :
    Bind([b EXCEPT !.ppu = line.ppu], LAMBDA b0 :
        IF line.value
        THEN Bind(push_address(Machine(c, b0, FALSE), c.pc),
                  LAMBDA pushed_pc :
             Bind(PHP(pushed_pc), LAMBDA pushed_status :
             Bind(CPU_read_address(pushed_status.cpu, pushed_status.bus,
                                   65530), LAMBDA vector :
                LET c1 == write_status_bit(
                             [pushed_status.cpu EXCEPT !.pc = vector.value],
                             FLAG_I, TRUE)
                IN  [cpu |-> [c1 EXCEPT !.cycles = @ + 7],
                     bus |-> vector.bus,
                     aborted |-> pushed_status.aborted \/ vector.aborted,
                     cycles |-> 7, nmi |-> TRUE])))
        ELSE Bind(CPU_decode(c, b0, c.pc), LAMBDA instr :
             Bind(Machine([c EXCEPT
                             !.pc = (@ + instr.width) % U16,
                             !.cycles =
                                 @ + instr.extended_opcode.min_cycles
                                   + (IF instr.page_boundary_hit
                                      THEN 1 ELSE 0)],
                          instr.bus, instr.aborted), LAMBDA st :
             Bind(CPU_dispatch(st, instr.extended_opcode.opcode,
                               instr.final_address), LAMBDA r :
                [cpu |-> r.cpu, bus |-> r.bus, aborted |-> r.aborted,
                 cycles |-> (r.cpu.cycles - c.cycles) % U16,
                 nmi |-> FALSE])))))

(***************************************************************************)
(* Frame-level actions                                                     *)
(***************************************************************************)
\* Cartridge the frame-level specifications leave in the slot
DefaultCartridge ==
    [mapper_id |-> 0, prg_banks |-> 1, chr_ram |-> FALSE,
     mirror |-> "Horizontal", program |-> <<>>]

\* Console::new at the bus level: MemoryBus, CPU::reset, Screen::default
BusReset(cartridge) ==
    /\ \E b \in {MemoryBus_new(cartridge)} :
          \E m \in {CPU_reset(CPU_default, b)} :
             /\ cpu = m.cpu
             /\ bus = m.bus
             /\ last_op = [op |-> "none", addr |-> 0, data |-> 0,
                           value |-> 0, cpu |-> m.cpu, bus |-> m.bus]
    /\ pixels = ZeroMem
    /\ ops = 0
    /\ strobed = <<>>
    /\ banked = <<>>
    /\ call = [pos |-> "idle", low |-> FALSE, since |-> 0]
    /\ dots = 0
    /\ nmi_log = [raised |-> 0, entries |-> 0, owed |-> FALSE,
                  entry |-> FALSE]
    /\ returns = <<>>
    /\ marks = <<>>
    /\ saved = <<>>

InitFrame ==
    /\ BusReset(DefaultCartridge)
    /\ \E s \in InitialStepSamples, rom \in WarmupSamples :
          console = Console_new(s, rom)
    /\ other = Console_new(1, 0)
    /\ pushed = <<>>
    /\ popped = <<>>
    /\ phase = "push"
    /\ resim = <<>>
    /\ synced = FALSE
    /\ aborted = FALSE

UpdateButtons(b) ==
    /\ ~aborted
    /\ console' = Console_update_buttons(console, b)
    /\ synced' = FALSE
    /\ UNCHANGED <<other, pushed, popped, phase, resim, aborted, bus_vars>>

NextScreenUpTo(n) ==
    /\ ~aborted
    /\ Len(console.state.hist) < n
    /\ console.tape.frames < n
    /\ console' = Console_next_screen(console)
    /\ IF console.in_rewind
       THEN UNCHANGED <<pushed, popped, phase>>
       ELSE IF phase = "push"
       THEN /\ pushed' = Append(pushed, console'.state)
            /\ UNCHANGED <<popped, phase>>
       ELSE /\ phase' = "mixed"
            /\ pushed' = <<>>
            /\ popped' = <<>>
    /\ resim' = <<>>
    /\ synced' = FALSE
    /\ UNCHANGED <<other, aborted, bus_vars>>

Rewind ==
    /\ ~aborted
    /\ ~FramesUnderflow(console.tape)
    /\ console' = Console_rewind(console)
    /\ resim' = pop_back(console.tape, console.screen).resim
    /\ IF phase = "mixed"
       THEN UNCHANGED <<pushed, popped, phase>>
       ELSE /\ phase' = "pop"
            /\ popped' = IF Len(popped) <= Len(pushed)
                         THEN Append(popped,
                                  pop_back(console.tape, console.screen).result)
                         ELSE popped
            /\ UNCHANGED pushed
    /\ synced' = FALSE
    /\ UNCHANGED <<other, aborted, bus_vars>>

NextScreen == NextScreenUpTo(MaxFrames)

\* pop_back with frames = 0 and a frame still in the cache: the decrement
\* overflows.  A build with overflow checks panics, a build without wraps.
RewindUnderflow ==
    /\ ~aborted
    /\ FramesUnderflow(console.tape)
    /\ \/ /\ aborted' = TRUE
          /\ UNCHANGED <<frame_vars, bus_vars>>
       \/ /\ console' = Console_rewind(console)
          /\ resim' = pop_back(console.tape, console.screen).resim
          /\ popped' = IF phase # "mixed" /\ Len(popped) <= Len(pushed)
                       THEN Append(popped,
                                pop_back(console.tape, console.screen).result)
                       ELSE popped
          /\ phase' = IF phase = "mixed" THEN "mixed" ELSE "pop"
          /\ synced' = FALSE
          /\ UNCHANGED <<other, pushed, aborted, bus_vars>>

Next ==
    \/ \E b \in ButtonSamples : UpdateButtons(b)
    \/ NextScreen
    \/ Rewind
    \/ RewindUnderflow

Spec == InitFrame /\ [][Next]_vars

(***************************************************************************)
(* Claims about the rewind tape                                            *)
(***************************************************************************)
\* History represented by one stored checkpoint: its base plus its runs
CheckpointFrames(checkpoint) == 1 + SumCounts(checkpoint.buttons_rle)

RECURSIVE StoredFrames(_)
StoredFrames(stored) ==
    IF stored = <<>> THEN 0
    ELSE CheckpointFrames(stored[1]) + StoredFrames(Tail(stored))

\* History represented by the three zones of the tape
TapeHistory(tape) ==
    StoredFrames(tape.stored_checkpoints)
    + Len(tape.previous_checkpoint[1])
    + SumCounts(tape.previous_checkpoint[2])
    + Len(tape.snapshot_cache)

\* C1: N push_back calls on a fresh tape followed by pop_back calls: the
\* i-th pop returns Some(the (N+1-i)-th pushed state) for i = 1..N, and the
\* (N+1)-th pop returns None.
C1_RoundTrip ==
    phase # "mixed" =>
        \A i \in 1..Len(popped) :
            popped[i] = IF i <= Len(pushed)
                        THEN <<pushed[Len(pushed) + 1 - i]>>
                        ELSE <<>>

\* C2: while rewinding a push-only history, the pair pop_back re-simulates
\* and pushes into the working area is the state push_back recorded for that
\* frame, paired with that frame's button mask.
C2_ResimFidelity ==
    (phase = "pop" /\ resim # <<>>) =>
        LET s == resim[1][1]
            f == Len(s.hist)
        IN  /\ f <= Len(pushed)
            /\ pushed[f] = s
            /\ resim[1][2] = pushed[f].button_state

\* C4: the frames counter equals the history represented by the stored
\* checkpoints, the working area (expanded snapshots and remaining runs) and
\* the snapshot cache.
C4_HistoryInvariant ==
    console.tape.frames = TapeHistory(console.tape)

(***************************************************************************)
(* Snapshot and restore between two consoles                               *)
(***************************************************************************)
InitRestore ==
    /\ BusReset(DefaultCartridge)
    /\ \E s \in InitialStepSamples, rom \in WarmupSamples :
          console = Console_new(s, rom)
    /\ \E s \in InitialStepSamples, rom \in WarmupSamples :
          other = Console_new(s, rom)
    /\ pushed = <<>>
    /\ popped = <<>>
    /\ phase = "push"
    /\ resim = <<>>
    /\ synced = FALSE
    /\ aborted = FALSE

RestoreNextScreen == NextScreenUpTo(MaxRestoreFrames)

OtherUpdateButtons(b) ==
    /\ ~aborted
    /\ other' = Console_update_buttons(other, b)
    /\ synced' = FALSE
    /\ UNCHANGED <<console, pushed, popped, phase, resim, aborted, bus_vars>>

OtherNextScreen ==
    /\ ~aborted
    /\ Len(other.state.hist) < MaxRestoreFrames
    /\ other.tape.frames < MaxRestoreFrames
    /\ other' = Console_next_screen(other)
    /\ synced' = FALSE
    /\ UNCHANGED <<console, pushed, popped, phase, resim, aborted, bus_vars>>

\* other.restore_snapshot(console.snapshot(), &vec![], &vec![])
OtherRestore ==
    /\ ~aborted
    /\ other' = Console_restore_snapshot(other, Console_snapshot(console))
    /\ synced' = TRUE
    /\ UNCHANGED <<console, pushed, popped, phase, resim, aborted, bus_vars>>

NextRestore ==
    \/ \E b \in ButtonSamples : UpdateButtons(b)
    \/ RestoreNextScreen
    \/ \E b \in ButtonSamples : OtherUpdateButtons(b)
    \/ OtherNextScreen
    \/ OtherRestore

SpecRestore == InitRestore /\ [][NextRestore]_vars

\* update_buttons(b); next_screen() on a console: the ConsoleState and the
\* screen it yields
NextFrame(c, b) ==
    LET n == Console_next_screen(Console_update_buttons(c, b))
    IN  [state |-> n.state, screen |-> n.screen]

MaxBusOps == 2

\* Largest number of operations in the work-RAM specification
MaxRamOps == 3

\* Largest number of operations in the controller specification
MaxCtlOps == 12

\* Largest number of operations in the rendering specification
MaxRenderOps == 6

\* Cartridges in the slot: an NROM with CHR ROM and a UxROM with CHR RAM
CartridgeSamples ==
    {DefaultCartridge,
     [mapper_id |-> 2, prg_banks |-> 2, chr_ram |-> TRUE,
      mirror |-> "Vertical", program |-> <<>>]}

\* history kept by a write to $4016: a write with bit 0 set ends the read
\* sequence, a write with bit 0 clear right after one starts a new one
StrobeWrite(data) ==
    IF data % 2 = 1 THEN <<>>
    ELSE IF last_op.op = "write" /\ last_op.addr = 16406
            /\ last_op.data % 2 = 1
    THEN << [mask |-> bus.controller.button_state, reads |-> <<>>] >>
    ELSE strobed

\* history kept by a read of $4016
StrobeRead(value) ==
    IF strobed = <<>> THEN strobed
    ELSE << [strobed[1] EXCEPT !.reads = Append(@, value)] >>

\* CPU::read_byte(addr)
CpuRead(addr, n) ==
    /\ ~aborted
    /\ ops < n
    /\ LET r == CPU_read_byte(cpu, bus, addr)
       IN  /\ aborted' = r.aborted
           /\ bus' = IF r.aborted THEN bus ELSE r.bus
           /\ last_op' = [op |-> "read", addr |-> addr, data |-> 0,
                          value |-> r.value, cpu |-> cpu, bus |-> bus]
           /\ strobed' = IF addr = 16406 THEN StrobeRead(r.value)
                         ELSE strobed
    /\ ops' = ops + 1
    /\ UNCHANGED <<cpu, pixels, banked>>
    /\ UNCHANGED <<frame_vars, step_vars, saved>>

\* CPU::write_byte(addr, data)
CpuWrite(addr, data, n) ==
    /\ ~aborted
    /\ ops < n
    /\ LET r == CPU_write_byte(cpu, bus, addr, data)
       IN  /\ aborted' = r.aborted
           /\ cpu' = IF r.aborted THEN cpu ELSE r.cpu
           /\ bus' = IF r.aborted THEN bus ELSE r.bus
    /\ last_op' = [op |-> "write", addr |-> addr, data |-> data,
                   value |-> 0, cpu |-> cpu, bus |-> bus]
    /\ strobed' = IF addr = 16406 THEN StrobeWrite(data) ELSE strobed
    /\ banked' = IF addr >= 32768 THEN <<data>> ELSE banked
    /\ ops' = ops + 1
    /\ UNCHANGED pixels
    /\ UNCHANGED <<frame_vars, step_vars, saved>>

\* PPU::step on the console's screen.  A step whose integer arithmetic
\* overflows panics in a build with overflow checks and wraps in one
\* without; a step that indexes outside an array panics in both.
PpuStep(n) ==
    /\ ~aborted
    /\ ops < n
    /\ LET r == PPU_step(bus.ppu, bus.mapper, pixels)
       IN  \E panics \in IF r.aborted THEN {TRUE}
                         ELSE IF r.overflow THEN {TRUE, FALSE}
                         ELSE {FALSE} :
              /\ aborted' = panics
              /\ bus' = IF panics THEN bus ELSE [bus EXCEPT !.ppu = r.ppu]
              /\ pixels' = IF panics THEN pixels ELSE r.screen
              /\ marks' = IF ~panics /\ r.ppu.frame # bus.ppu.frame
                          THEN Append(marks, dots + 1) ELSE marks
    /\ last_op' = [op |-> "step", addr |-> 0, data |-> 0, value |-> 0,
                   cpu |-> cpu, bus |-> bus]
    /\ ops' = ops + 1
    /\ dots' = dots + 1
    /\ UNCHANGED <<cpu, strobed, banked, call, nmi_log, returns>>
    /\ UNCHANGED <<frame_vars, saved>>

\* Console::update_buttons -> ConsoleState::update_buttons ->
\* Controller::update_buttons
ControllerUpdateButtons(mask, n) ==
    /\ ~aborted
    /\ ops < n
    /\ bus' = [bus EXCEPT !.controller.button_state = mask]
    /\ last_op' = [op |-> "buttons", addr |-> 0, data |-> mask, value |-> 0,
                   cpu |-> cpu, bus |-> bus]
    /\ strobed' = <<>>
    /\ ops' = ops + 1
    /\ UNCHANGED <<aborted, cpu, pixels, banked>>
    /\ UNCHANGED <<frame_vars, step_vars, saved>>

\* The frame-level variables while a bus-level specification runs
FrameReset ==
    /\ console = Console_new(1, 0)
    /\ other = Console_new(1, 0)
    /\ pushed = <<>>
    /\ popped = <<>>
    /\ phase = "push"
    /\ resim = <<>>
    /\ synced = FALSE
    /\ aborted = FALSE

(***************************************************************************)
(* The CPU address decoder: one address in every arm of read_byte and      *)
(* write_byte, and the PPU registers with their mirrors                    *)
(***************************************************************************)
\* $0000 $0A34 | $2000 $2002 $2006 $2007 $200A $200F $3FF8 |
\* $4000 $4014 $4015 $4016 $4017 $401F | $4020 $8000 $FFFF
BusAddrs ==
    {0, 2612, 8192, 8194, 8198, 8199, 8202, 8207, 16376,
     16384, 16404, 16405, 16406, 16407, 16415, 16416, 32768, 65535}

BusData == {0, 63}

InitBus ==
    /\ FrameReset
    /\ \E cartridge \in CartridgeSamples : BusReset(cartridge)

NextBus ==
    \/ \E a \in BusAddrs : CpuRead(a, MaxBusOps)
    \/ \E a \in BusAddrs, d \in BusData : CpuWrite(a, d, MaxBusOps)

SpecBus == InitBus /\ [][NextBus]_vars

\* the access of last_op repeated at address a from the state it started in
Replay(a) ==
    IF last_op.op = "read"
    THEN LET r == CPU_read_byte(last_op.cpu, last_op.bus, a)
         IN  [cpu |-> last_op.cpu, bus |-> r.bus, value |-> r.value,
              aborted |-> r.aborted]
    ELSE LET r == CPU_write_byte(last_op.cpu, last_op.bus, a, last_op.data)
         IN  [cpu |-> r.cpu, bus |-> r.bus, value |-> 0,
              aborted |-> r.aborted]

\* C5: every CPU read_byte(a) and write_byte(a, d) completes without
\* aborting, whatever the address and the data, including writes to the
\* read-only PPU register $2002 and to the register mirrors $2008-$3FFF.
C5_DecodeTotal ==
    last_op.op \in {"read", "write"} => ~aborted

\* C6: a CPU read or write at an address a in $2000-$3FFF returns the same
\* value and has the same effect on the PPU as the same access at
\* $2000 | (a & 7).
C6_RegisterMirroring ==
    (last_op.op \in {"read", "write"}
        /\ last_op.addr >= 8192 /\ last_op.addr <= 16383) =>
        LET canonical == Replay(BitOr(8192, BitAnd(last_op.addr, 7)))
        IN  /\ aborted = canonical.aborted
            /\ ~aborted => /\ last_op.value = canonical.value
                           /\ bus = canonical.bus

(***************************************************************************)
(* Work RAM                                                                *)
(***************************************************************************)
\* $0000 $0001 $07FF | mirrors $0800 $17FF $1FFF | $4016 $8000
RamAddrs == {0, 1, 2047, 2048, 6143, 8191, 16406, 32768}

RamData == {0, 1, 171}

InitRam ==
    /\ FrameReset
    /\ \E cartridge \in CartridgeSamples : BusReset(cartridge)

NextRam ==
    \/ \E a \in RamAddrs : CpuRead(a, MaxRamOps)
    \/ \E a \in RamAddrs, d \in RamData : CpuWrite(a, d, MaxRamOps)

SpecRam == InitRam /\ [][NextRam]_vars

\* C7: after write_byte(a, v) with a below $2000, read_byte(a') returns v
\* for every a' below $2000 with a' mod 2048 = a mod 2048, every other RAM
\* cell keeps its value, and the PPU, the controller and the mapper are
\* unchanged.
C7_RamMirroring ==
    (last_op.op = "write" /\ last_op.addr < 8192) =>
        /\ ~aborted
        /\ \A k \in 0..3 :
              CPU_read_byte(cpu, bus, (last_op.addr % 2048) + 2048 * k).value
                  = last_op.data
        /\ \A i \in (0..2047) \ {last_op.addr % 2048} :
              MemGet(cpu.ram, i) = MemGet(last_op.cpu.ram, i)
        /\ DOMAIN cpu.ram \subseteq 0..2047
        /\ bus = last_op.bus

\* A write of a non-zero byte through a mirror above $07FF, with another
\* RAM cell holding a non-zero byte and the bus no longer as at power-on
C7_Witness ==
    /\ last_op.op = "write"
    /\ last_op.addr >= 2048 /\ last_op.addr < 8192
    /\ last_op.data # 0
    /\ \E i \in DOMAIN last_op.cpu.ram : i # last_op.addr % 2048
    /\ \E cartridge \in CartridgeSamples :
          /\ bus.mapper.mapper_id = cartridge.mapper_id
          /\ bus # MemoryBus_new(cartridge)
    /\ ~aborted

(***************************************************************************)
(* Controller                                                              *)
(***************************************************************************)
\* A only, Right only, A + Select + Down + Right
MaskSamples == {1, 128, 165}

InitController ==
    /\ FrameReset
    /\ BusReset(DefaultCartridge)

NextController ==
    \/ \E m \in MaskSamples : ControllerUpdateButtons(m, MaxCtlOps)
    \/ \E d \in {0, 1} : CpuWrite(16406, d, MaxCtlOps)
    \/ CpuRead(16406, MaxCtlOps)

SpecController == InitController /\ [][NextController]_vars

\* C10: after write $4016 <- 1 then write $4016 <- 0, with the mask m left
\* alone, the k-th read of $4016 returns bit k-1 of m for k = 1..8 and
\* every later read returns 0, until the next strobe.
C10_ReadSequence ==
    strobed # <<>> =>
        \A k \in 1..Len(strobed[1].reads) :
            strobed[1].reads[k] =
                IF k <= 8 THEN Bit(strobed[1].mask, k - 1) ELSE 0

\* Nine reads after a strobe of the mask A + Select + Down + Right
C10_Witness ==
    /\ strobed # <<>>
    /\ strobed[1].mask = 165
    /\ Len(strobed[1].reads) >= 9
    /\ strobed[1].reads[1] = 1
    /\ strobed[1].reads[8] = 1
    /\ ~aborted

(***************************************************************************)
(* Palette RAM and the rendered screen                                     *)
(***************************************************************************)
\* PPUADDR $2006 <- $3F, $00; PPUDATA $2007 <- $FF, $15; PPUMASK $2001 <- $08
RenderWrites ==
    {<<8198, 63>>, <<8198, 0>>, <<8199, 255>>, <<8199, 21>>, <<8193, 8>>}

InitRender ==
    /\ FrameReset
    /\ \E cartridge \in CartridgeSamples : BusReset(cartridge)

NextRender ==
    \/ \E w \in RenderWrites : CpuWrite(w[1], w[2], MaxRenderOps)
    \/ PpuStep(MaxRenderOps)

SpecRender == InitRender /\ [][NextRender]_vars

\* C8: after a PPU-bus write of v to $3F00 + o, a PPU-bus read of
\* $3F00 + o returns v & $3F.
C8_PaletteReadAfterWrite ==
    (last_op.op = "write" /\ PPU_register(last_op.addr) = 8199
        /\ last_op.bus.ppu.v >= 16128 /\ last_op.bus.ppu.v <= 16383
        /\ ~aborted) =>
        PPU_read_byte(bus.ppu, bus.mapper, last_op.bus.ppu.v).value
            = BitAnd(last_op.data, 63)

\* C9: every pixel of the screen is a palette index in 0..63.
C9_ScreenRange ==
    \A at \in DOMAIN pixels : pixels[at] \in 0..63

(***************************************************************************)
(* OAM DMA, mapper pages and PRG banking                                   *)
(***************************************************************************)
\* Largest number of operations in the DMA and banking specification
MaxDmaOps == 3

\* work RAM $0300 <- $AB, $03FF <- $01, $0B00 (mirror of $0300) <- $CD;
\* OAMADDR $2003 <- $05; OAM DMA $4014 <- pages $03 $08 $1F $40 $80 $BF $FF;
\* mapper $6000 <- $01; bank select $8000 <- $01, $C000 <- $0F
DmaWrites ==
    {<<768, 171>>, <<1023, 1>>, <<2816, 205>>, <<8195, 5>>,
     <<16404, 3>>, <<16404, 8>>, <<16404, 31>>, <<16404, 64>>,
     <<16404, 128>>, <<16404, 191>>, <<16404, 255>>,
     <<24576, 1>>, <<32768, 1>>, <<49152, 15>>}

\* $8000 $BFFF $C000 $FFFF
DmaReads == {32768, 49151, 49152, 65535}

InitDma ==
    /\ FrameReset
    /\ \E cartridge \in CartridgeSamples : BusReset(cartridge)

NextDma ==
    \/ \E w \in DmaWrites : CpuWrite(w[1], w[2], MaxDmaOps)
    \/ \E a \in DmaReads : CpuRead(a, MaxDmaOps)

SpecDma == InitDma /\ [][NextDma]_vars

\* C11: a CPU write of a page p in $00-$1F to $4014 completes and leaves
\* OAM[(s + i) mod 256] equal to the byte the CPU reads at p * 256 + i,
\* for OAMADDR = s and every i in 0..255.
C11_OamDma ==
    (last_op.op = "write" /\ last_op.addr = 16404 /\ last_op.data <= 31) =>
        /\ ~aborted
        /\ \A i \in 0..255 :
              MemGet(bus.ppu.oam, (last_op.bus.ppu.oam_addr + i) % 256)
                  = CPU_read_byte(last_op.cpu, last_op.bus,
                                  last_op.data * 256 + i).value

\* C12: read_page(p) returns, for every page p >= $80, 256 bytes whose
\* byte i is mapper.read(p * 256 + i) under the current bank selection,
\* and None for every p < $80.
C12_MapperReadPage ==
    (last_op.op = "write" /\ last_op.addr = 16404) =>
        LET p == last_op.data
            r == UxROM_read_page(last_op.bus.mapper, p)
        IN  /\ ~r.aborted
            /\ p < 128 => r.page = <<>>
            /\ p >= 128 =>
                  /\ r.page # <<>>
                  /\ \A i \in 0..255 :
                        r.page[1][i + 1] =
                            Mapper_read(last_op.bus.mapper, p * 256 + i).value

\* C13: on a UxROM, a read at $C000-$FFFF returns PRG[last][addr mod $4000]
\* and a read at $8000-$BFFF returns PRG[d & $0F][addr mod $4000], d being
\* the data of the most recent write to $8000-$FFFF (bank 0 if none);
\* writes to $2000-$7FFF leave the bank selection alone.
C13_UxROMBanking ==
    bus.mapper.mapper_id = 2 =>
        /\ (last_op.op = "read" /\ last_op.addr >= 49152) =>
              /\ ~aborted
              /\ last_op.value = PrgByte(last_op.bus.mapper.prg_banks - 1,
                                         last_op.addr % 16384)
        /\ (last_op.op = "read" /\ last_op.addr >= 32768
                /\ last_op.addr < 49152) =>
              /\ ~aborted
              /\ last_op.value =
                    PrgByte(IF banked = <<>> THEN 0
                            ELSE BitAnd(banked[1], 15),
                            last_op.addr % 16384)
        /\ (last_op.op = "write" /\ last_op.addr >= 8192
                /\ last_op.addr < 32768 /\ ~aborted) =>
              /\ bus.mapper.first_bank = last_op.bus.mapper.first_bank
              /\ bus.mapper.last_bank = last_op.bus.mapper.last_bank

(***************************************************************************)
(* Console level: ConsoleState::step and wait_vblank (console.rs) running  *)
(* a program from the cartridge                                            *)
(***************************************************************************)
\* next_screen calls a behaviour makes
MaxReturns == 2

\* dots of a scanline and scanlines of a frame (PPU::update_cycle)
SCANLINE_DOTS == 341
FRAME_LINES == 262

DotsFor_two(cycles) == 2 * cycles

\* Number of PPU::step calls ConsoleState::step makes after a CPU step of
\* `cycles' cycles: the two nested loops
DotsFor(cycles) == 3 * cycles

RECURSIVE PPU_steps(_, _, _, _)
\* n consecutive PPU::step calls, cut short by a panic: the PPU and the
\* screen after them, whether one panicked or overflowed, whether one raised
\* pending_nmi, how many were made, and <<k>> when the k-th of them
\* incremented the frame counter
PPU_steps(ppu, mapper, screen, n) ==
    IF n = 0
    THEN [ppu |-> ppu, screen |-> screen, aborted |-> FALSE,
          overflow |-> FALSE, raised |-> FALSE, count |-> 0,
          frame_dot |-> <<>>]
    ELSE Bind(PPU_step(ppu, mapper, screen), LAMBDA r :
            IF r.aborted
            THEN [ppu |-> ppu, screen |-> screen, aborted |-> TRUE,
                  overflow |-> FALSE, raised |-> FALSE, count |-> 0,
                  frame_dot |-> <<>>]
            ELSE Bind(PPU_steps(r.ppu, mapper, r.screen, n - 1),
                      LAMBDA rest :
                    [ppu |-> rest.ppu, screen |-> rest.screen,
                     aborted |-> rest.aborted,
                     overflow |-> r.overflow \/ rest.overflow,
                     raised |-> (~ppu.pending_nmi /\ r.ppu.pending_nmi)
                                  \/ rest.raised,
                     count |-> rest.count + 1,
                     frame_dot |-> IF r.ppu.frame # ppu.frame THEN <<1>>
                                   ELSE IF rest.frame_dot # <<>>
                                   THEN <<rest.frame_dot[1] + 1>>
                                   ELSE <<>>]))

\* ConsoleState::step: one CPU step, then three PPU dots per CPU cycle.
\* `raised' tells whether the PPU register write of the CPU step or one of
\* the dots set pending_nmi
ConsoleState_step(c, b, screen) ==
    Bind(CPU_step(c, b), LAMBDA s :
    Bind(PPU_steps(s.bus.ppu, s.bus.mapper, screen, DotsFor(s.cycles)),
         LAMBDA d :
        [cpu |-> s.cpu, bus |-> [s.bus EXCEPT !.ppu = d.ppu],
         screen |-> d.screen, aborted |-> s.aborted \/ d.aborted,
         overflow |-> d.overflow, cycles |-> s.cycles, nmi |-> s.nmi,
         raised |-> s.bus.ppu.pending_nmi \/ d.raised,
         dots |-> d.count, frame_dot |-> d.frame_dot]))

WaitVblank_one_loop(pos, in_vblank) == "seek"

\* wait_vblank: the loop the caller is in after testing in_vblank at
\* position pos and running the body once
WaitVblank(pos, in_vblank) ==
    IF pos = "leave" /\ in_vblank THEN "leave" ELSE "seek"

\* A PRG bank image: `code' at $C000, `handler' at $C100, and the vectors
\* NMI -> $C100, RESET -> $C000, IRQ -> $C000 at $FFFA
Program(code, handler) ==
    [o \in (0..(Len(code) - 1)) \cup (256..(255 + Len(handler)))
             \cup (16378..16383) |->
        IF o < Len(code) THEN code[o + 1]
        ELSE IF o < 16378 THEN handler[o - 255]
        ELSE <<0, 193, 0, 192, 0, 192>>[o - 16377]]

\* LDX #2; count: LDA $C0FF,X; DEX; BNE count; LDA #$80; STA $2000;
\* loop: JMP (ptr); ptr: .word loop, with the handler RTI
ProgramNmi ==
    Program(<<162, 2, 189, 255, 192, 202, 208, 250, 169, 128, 141, 0, 32,
              108, 16, 192, 13, 192>>, <<64>>)

\* loop: LDA #0; STA $2000; LDA #$80; STA $2000; JMP loop, with the
\* handler RTI
ProgramToggle ==
    Program(<<169, 0, 141, 0, 32, 169, 128, 141, 0, 32, 76, 0, 192>>, <<64>>)

\* Cartridges the console-level behaviours run
ConsoleCartridges ==
    {[mapper_id |-> 0, prg_banks |-> 1, chr_ram |-> FALSE,
      mirror |-> "Horizontal", program |-> p] :
        p \in {ProgramNmi, ProgramToggle}}

\* Console::next_screen is called
NextScreenCall(n) ==
    /\ ~aborted
    /\ call.pos = "idle"
    /\ Len(returns) < n
    /\ call' = [pos |-> "leave", low |-> FALSE, since |-> dots]
    /\ last_op' = [op |-> "call", addr |-> 0, data |-> 0, value |-> 0,
                   cpu |-> cpu, bus |-> bus]
    /\ UNCHANGED <<aborted, cpu, bus, pixels, ops, strobed, banked, dots,
                   nmi_log, returns, marks>>
    /\ UNCHANGED <<frame_vars, saved>>

\* One iteration of a loop of wait_vblank: ConsoleState::step
ConsoleStep ==
    /\ ~aborted
    /\ call.pos # "idle"
    /\ ~(call.pos = "seek" /\ bus.ppu.in_vblank)
    /\ \E r \in {ConsoleState_step(cpu, bus, pixels)} :
           \E panics \in IF r.aborted THEN {TRUE}
                         ELSE IF r.overflow THEN {TRUE, FALSE}
                         ELSE {FALSE} :
              /\ aborted' = panics
              /\ cpu' = IF panics THEN cpu ELSE r.cpu
              /\ bus' = IF panics THEN bus ELSE r.bus
              /\ pixels' = IF panics THEN pixels ELSE r.screen
              /\ dots' = IF panics THEN dots ELSE dots + r.dots
              /\ marks' = IF ~panics /\ r.frame_dot # <<>>
                          THEN Append(marks, dots + r.frame_dot[1])
                          ELSE marks
              /\ nmi_log' =
                   IF panics THEN nmi_log
                   ELSE [raised |-> nmi_log.raised
                                      + (IF r.raised THEN 1 ELSE 0),
                         entries |-> nmi_log.entries
                                      + (IF r.nmi THEN 1 ELSE 0),
                         owed |-> r.raised, entry |-> r.nmi]
              /\ call' =
                   IF panics THEN call
                   ELSE [pos |-> WaitVblank(call.pos, bus.ppu.in_vblank),
                         low |-> call.low \/ ~bus.ppu.in_vblank
                                   \/ ~r.bus.ppu.in_vblank,
                         since |-> call.since]
              /\ last_op' = [op |-> "console", addr |-> 0, data |-> 0,
                             value |-> r.cycles, cpu |-> cpu, bus |-> bus]
    /\ ops' = ops + 1
    /\ UNCHANGED <<strobed, banked, returns>>
    /\ UNCHANGED <<frame_vars, saved>>

\* wait_vblank leaves its second loop and next_screen returns
NextScreenReturn ==
    /\ ~aborted
    /\ call.pos = "seek"
    /\ bus.ppu.in_vblank
    /\ call' = [pos |-> "idle", low |-> FALSE, since |-> 0]
    /\ returns' = Append(returns, [frame |-> bus.ppu.frame,
                                   low |-> call.low,
                                   high |-> bus.ppu.in_vblank])
    /\ last_op' = [op |-> "return", addr |-> 0, data |-> 0, value |-> 0,
                   cpu |-> cpu, bus |-> bus]
    /\ UNCHANGED <<aborted, cpu, bus, pixels, ops, strobed, banked, dots,
                   nmi_log, marks>>
    /\ UNCHANGED <<frame_vars, saved>>

InitConsole ==
    /\ \E cartridge \in ConsoleCartridges : BusReset(cartridge)
    /\ FrameReset

NextConsole ==
    \/ NextScreenCall(MaxReturns)
    \/ ConsoleStep
    \/ NextScreenReturn

SpecConsole == InitConsole /\ [][NextConsole]_vars

\* Position of the PPU counted in dots since power-up, while no dot is
\* skipped
DotIndex(ppu) ==
    (ppu.frame * FRAME_LINES + ppu.scanline) * SCANLINE_DOTS
      + ppu.cycle_in_scanline

\* C14: a CPU step that starts with pending_nmi set executes no instruction:
\* it pushes PC high, PC low and the status with B set (I as before) at
\* $0100|SP, lowers SP by 3, sets I, loads PC from $FFFA, adds 7 to the
\* cycle counter and returns 7; A, X, Y and the rest of the RAM are unchanged
C14_NmiEntry ==
    (last_op.op = "console" /\ last_op.bus.ppu.pending_nmi /\ ~aborted) =>
        LET c0 == last_op.cpu
            Stack(k) == 256 + ((c0.sp + 256 - k) % 256)
        IN  /\ nmi_log.entry
            /\ MemGet(cpu.ram, Stack(0)) = c0.pc \div 256
            /\ MemGet(cpu.ram, Stack(1)) = c0.pc % 256
            /\ MemGet(cpu.ram, Stack(2)) = BitOr(c0.status, 16)
            /\ cpu.sp = (c0.sp + 253) % 256
            /\ cpu.status = BitOr(c0.status, 4)
            /\ cpu.pc = CPU_read_address(c0, last_op.bus, 65530).value
            /\ cpu.cycles = c0.cycles + 7
            /\ last_op.value = 7
            /\ cpu.a = c0.a /\ cpu.x = c0.x /\ cpu.y = c0.y
            /\ \A i \in (0..(RAM_LEN - 1)) \ {Stack(0), Stack(1), Stack(2)} :
                  MemGet(cpu.ram, i) = MemGet(c0.ram, i)

\* an NMI entry taken with a non-zero accumulator and the I flag set before
C14_Witness ==
    /\ last_op.op = "console"
    /\ last_op.bus.ppu.pending_nmi
    /\ ~aborted
    /\ nmi_log.entry
    /\ cpu.a = 128
    /\ cpu.pc = 49408

\* C15: every pending-NMI edge the PPU raises (scanline 241 dot 1 with
\* enable_nmi set, or a PPUCTRL write) is serviced by the very next CPU step
\* and by no other: the edges raised so far are the NMI entries taken so
\* far, plus the edge the last step raised, and pending_nmi is false after
\* an NMI entry
C15_NmiOrdering ==
    /\ nmi_log.raised
          = nmi_log.entries + (IF nmi_log.owed THEN 1 ELSE 0)
    /\ (last_op.op = "console" /\ nmi_log.entry /\ ~aborted)
          => ~bus.ppu.pending_nmi

\* C16: every ConsoleState::step advances the PPU by exactly 3 * N dots,
\* where N is the value the CPU step returned and the increase of the CPU
\* cycle counter
C16_Lockstep ==
    /\ dots = 3 * cpu.cycles
    /\ (last_op.op = "console" /\ ~aborted) =>
          /\ last_op.value = cpu.cycles - last_op.cpu.cycles
          /\ DotIndex(bus.ppu) - DotIndex(last_op.bus.ppu)
                = 3 * last_op.value

\* a step of five cycles (an indexed load that crosses a page) has run
C16_Witness ==
    /\ last_op.op = "console"
    /\ ~aborted
    /\ last_op.value = 5
    /\ dots > 0

\* C17: next_screen returns only after in_vblank has been seen false and
\* then true during the call, and the PPU frame counter grows by exactly 1
\* from one return to the next
C17_FrameBoundary ==
    \A k \in DOMAIN returns :
        /\ returns[k].low
        /\ returns[k].high
        /\ k > 1 => returns[k].frame = returns[k - 1].frame + 1

\* next_screen has returned twice
C17_Witness ==
    /\ Len(returns) >= 2
    /\ call.pos = "idle"
    /\ bus.ppu.in_vblank

(***************************************************************************)
(* Frame timing: the PPU has reached the pre-render scanline of frame 0    *)
(* with rendering disabled; PPUMASK is written once (or not at all) and    *)
(* the PPU runs dot by dot through frame 1 into frame 2                    *)
(***************************************************************************)
\* bus operations of a behaviour: the PPUMASK write and the dots
MaxDots == 89700

\* the pre-render scanline
PRE_RENDER_LINE == 261

\* The PPU on the first dot of the pre-render scanline of frame 0 when
\* rendering has been disabled since reset: PPU::step has only moved the
\* position and set the vblank flags at scanline 241 dot 1
PPU_at_pre_render ==
    [PPU_reset EXCEPT !.scanline = PRE_RENDER_LINE, !.in_vblank = TRUE,
                      !.status_reg = 128]

\* PPUMASK values written: background shown
FrameMasks == {8}

InitFrames ==
    /\ \E b \in {MemoryBus_new(DefaultCartridge)} :
          \E m \in {CPU_reset(CPU_default, b)} :
             \E b1 \in {[m.bus EXCEPT !.ppu = PPU_at_pre_render]} :
                /\ cpu = m.cpu
                /\ bus = b1
                /\ last_op = [op |-> "none", addr |-> 0, data |-> 0,
                              value |-> 0, cpu |-> m.cpu, bus |-> b1]
    /\ pixels = ZeroMem
    /\ ops = 0
    /\ strobed = <<>>
    /\ banked = <<>>
    /\ call = [pos |-> "idle", low |-> FALSE, since |-> 0]
    \* the dots the PPU has run to get here from reset
    /\ dots = PRE_RENDER_LINE * SCANLINE_DOTS
    /\ nmi_log = [raised |-> 0, entries |-> 0, owed |-> FALSE,
                  entry |-> FALSE]
    /\ returns = <<>>
    /\ marks = <<>>
    /\ saved = <<>>
    /\ FrameReset

NextFrames ==
    \/ \E d \in FrameMasks : ops = 0 /\ CpuWrite(8193, d, MaxDots)
    \/ PpuStep(MaxDots)

SpecFrames == InitFrames /\ [][NextFrames]_vars

\* Dots of the k-th frame since power-up (k = 1 for frame 0)
FrameLength(k) == marks[k] - (IF k = 1 THEN 0 ELSE marks[k - 1])

\* C18: with rendering enabled one dot is skipped at each transition into an
\* odd frame, so frames are 89342 and 89341 dots long in turn; with rendering
\* disabled every frame is 89342 dots long
C18_OddFrameSkip ==
    /\ \A k \in DOMAIN marks :
          FrameLength(k) =
              IF rendering_enabled(bus.ppu.mask_reg) /\ (k - 1) % 2 = 1
              THEN SCANLINE_DOTS * FRAME_LINES - 1
              ELSE SCANLINE_DOTS * FRAME_LINES
    /\ DotIndex(bus.ppu) =
          dots + (IF rendering_enabled(bus.ppu.mask_reg)
                  THEN (bus.ppu.frame + 1) \div 2 ELSE 0)

\* an odd frame has ended with rendering enabled
C18_Witness ==
    /\ Len(marks) = 2
    /\ rendering_enabled(bus.ppu.mask_reg)
    /\ ~aborted
    /\ marks[2] - marks[1] = 89341
    /\ bus.ppu.frame = 2

\* C19: after the PPU step at scanline 261 dot 1, PPUSTATUS bits 7, 6 and 5
\* and in_vblank are all clear
C19_PreRenderClear ==
    (/\ last_op.op = "step"
     /\ last_op.bus.ppu.scanline = 261
     /\ last_op.bus.ppu.cycle_in_scanline = 1
     /\ ~aborted) =>
        /\ Bit(bus.ppu.status_reg, 7) = 0
        /\ Bit(bus.ppu.status_reg, 6) = 0
        /\ Bit(bus.ppu.status_reg, 5) = 0
        /\ ~bus.ppu.in_vblank

(***************************************************************************)
(* Sprite zero: PPUCTRL, PPUMASK and one byte of OAM sprite 0 are written  *)
(* after reset, then the PPU runs into scanline 1                          *)
(***************************************************************************)
\* bus operations of a behaviour: four register writes and the dots
MaxSpriteOps == 400

\* The register write made as the k-th operation: PPUCTRL, PPUMASK, OAMADDR
\* (attributes or x of sprite 0) and OAMDATA (behind the background, or
\* x = 1)
SpriteWrites(k) ==
    CASE k = 0 -> {<<8192, 16>>}
      [] k = 1 -> {<<8193, 24>>}
      [] k = 2 -> {<<8195, 2>>, <<8195, 3>>}
      [] k = 3 -> {<<8196, 1>>, <<8196, 32>>}
      [] OTHER -> {}

InitSprite ==
    /\ BusReset(DefaultCartridge)
    /\ FrameReset

NextSprite ==
    \/ \E w \in SpriteWrites(ops) : CpuWrite(w[1], w[2], MaxSpriteOps)
    \/ ops >= 4 /\ PpuStep(MaxSpriteOps)

SpecSprite == InitSprite /\ [][NextSprite]_vars

\* render_pixel: the colour of the background pixel at the dot of ppu
RenderedTilePalette(ppu) ==
    LET fine_x == ((ppu.cycle_in_scanline - 1) % 8) + ppu.fine_x
    IN  TileData_color(ppu.processed_tile[IF fine_x >= 8 THEN 2 ELSE 1],
                       fine_x % 8)

\* render_pixel: the sprite chosen at the dot of ppu (palette 0 if none)
RenderedSprite(ppu) ==
    IF Bit(ppu.control_reg, 4) = 1
    THEN MatchingSprite(ppu, ppu.cycle_in_scanline - 1, 0)
    ELSE [palette |-> 0, pos |-> 0, offset |-> 0, in_bg |-> FALSE]

\* C20: when a pixel is rendered, PPUSTATUS bit 6 is set afterwards iff it
\* was set before, or the chosen sprite is slot 0 of the secondary OAM, OAM
\* sprite 0 was copied for the line and the background pixel is non-zero,
\* whatever the priority of the sprite; a background pixel 0 never sets it
C20_SpriteZeroHit ==
    LET p == PPU_apply_last_read(last_op.bus.ppu)
    IN  (/\ last_op.op = "step"
         /\ ~aborted
         /\ p.scanline <= 239
         /\ p.cycle_in_scanline >= 1
         /\ p.cycle_in_scanline <= 256
         /\ rendering_enabled(p.mask_reg)) =>
            ((Bit(bus.ppu.status_reg, 6) = 1) <=>
                \/ Bit(p.status_reg, 6) = 1
                \/ /\ RenderedSprite(p).palette # 0
                   /\ RenderedSprite(p).pos = 0
                   /\ p.sprite_zero_in_line
                   /\ RenderedTilePalette(p) # 0)

(***************************************************************************)
(* The write toggle: the PPU stands on the first dot of the vblank         *)
(* scanline; PPUADDR is written, PPU registers are read and the PPU steps  *)
(***************************************************************************)
\* bus operations of a behaviour
MaxToggleOps == 4

\* the scanline whose dot 1 sets the vblank flag
VBLANK_LINE == 241

\* The PPU on dot 0 of scanline 241 of frame 0 when no register has been
\* written since reset: PPU::step has only moved the position
PPU_at_vblank_line == [PPU_reset EXCEPT !.scanline = VBLANK_LINE]

\* PPU registers read: PPUCTRL, PPUSTATUS, OAMDATA, PPUDATA
ToggleReads == {8192, 8194, 8196, 8199}

\* bytes written to PPUADDR
ToggleData == {0, 18}

InitToggle ==
    /\ \E b \in {MemoryBus_new(DefaultCartridge)} :
          \E m \in {CPU_reset(CPU_default, b)} :
             \E b1 \in {[m.bus EXCEPT !.ppu = PPU_at_vblank_line]} :
                /\ cpu = m.cpu
                /\ bus = b1
                /\ last_op = [op |-> "none", addr |-> 0, data |-> 0,
                              value |-> 0, cpu |-> m.cpu, bus |-> b1]
    /\ pixels = ZeroMem
    /\ ops = 0
    /\ strobed = <<>>
    /\ banked = <<>>
    /\ call = [pos |-> "idle", low |-> FALSE, since |-> 0]
    \* the dots the PPU has run to get here from reset
    /\ dots = VBLANK_LINE * SCANLINE_DOTS
    /\ nmi_log = [raised |-> 0, entries |-> 0, owed |-> FALSE,
                  entry |-> FALSE]
    /\ returns = <<>>
    /\ marks = <<>>
    /\ saved = <<>>
    /\ FrameReset

NextToggle ==
    \/ \E a \in ToggleReads : CpuRead(a, MaxToggleOps)
    \/ \E d \in ToggleData : CpuWrite(8198, d, MaxToggleOps)
    \/ PpuStep(MaxToggleOps)

SpecToggle == InitToggle /\ [][NextToggle]_vars

\* C21: after a read of $2002 and the PPU step that follows it, w is false
\* and PPUSTATUS bit 7 is clear; a read of another PPU register, and the PPU
\* step that follows it, leave w as it was
C21_StatusReadResetsToggle ==
    /\ (last_op.op = "step" /\ last_op.bus.ppu.last_read = <<8194>>
        /\ ~aborted) =>
           /\ ~bus.ppu.w
           /\ Bit(bus.ppu.status_reg, 7) = 0
    /\ (last_op.op = "step" /\ last_op.bus.ppu.last_read # <<8194>>
        /\ ~aborted) =>
           bus.ppu.w = last_op.bus.ppu.w
    /\ (last_op.op = "read" /\ ~aborted) =>
           bus.ppu.w = last_op.bus.ppu.w

(***************************************************************************)
(* Single instructions: the CPU stands in front of one instruction held in *)
(* work RAM, with sampled registers, and steps                             *)
(***************************************************************************)
\* CPU steps of a behaviour
MaxCpuSteps == 2

\* BPL BMI BVC BVS BCC BCS BNE BEQ
BranchOpcodes == {16, 48, 80, 112, 144, 176, 208, 240}

\* addresses of the branch: inside page 0, with the following instruction
\* on the last byte of page 0, on the first byte of page 1, inside page 1
BranchAddrs == {16, 253, 254, 384}

\* branch offsets: forward, backward, zero
BranchOffsets == {0, 2, 127, 128, 253, 254}

\* status registers: U and I only, and every flag a branch tests as well
BranchStatus == {36, 231}

\* ADC #imm, SBC #imm
ArithOpcodes == {105, 233}

\* accumulator and operand bytes
ArithBytes == {0, 1, 64, 127, 128, 129, 255}

\* status registers: C and D in every combination, with N V Z clear or set
ArithStatus == {36, 37, 44, 45, 230, 231, 238, 239}

\* addresses of the arithmetic instruction
ArithAddrs == {16}

\* The machine after reset with the instruction `opcode operand' at pc in
\* work RAM
InitCpuWith(pc, opcode, operand, a, status) ==
    /\ \E b \in {MemoryBus_new(DefaultCartridge)} :
          \E m \in {CPU_reset(CPU_default, b)} :
             \E c \in {[m.cpu EXCEPT
                           !.pc = pc, !.a = a, !.status = status,
                           !.ram = MemPut(MemPut(ZeroMem, pc, opcode),
                                          pc + 1, operand)]} :
                /\ cpu = c
                /\ bus = m.bus
                /\ last_op = [op |-> "none", addr |-> 0, data |-> 0,
                              value |-> 0, cpu |-> c, bus |-> m.bus]
    /\ pixels = ZeroMem
    /\ ops = 0
    /\ strobed = <<>>
    /\ banked = <<>>
    /\ call = [pos |-> "idle", low |-> FALSE, since |-> 0]
    /\ dots = 0
    /\ nmi_log = [raised |-> 0, entries |-> 0, owed |-> FALSE,
                  entry |-> FALSE]
    /\ returns = <<>>
    /\ marks = <<>>
    /\ saved = <<>>
    /\ FrameReset

InitCpu ==
    \/ \E pc \in BranchAddrs, o \in BranchOpcodes, off \in BranchOffsets,
          st \in BranchStatus : InitCpuWith(pc, o, off, 0, st)
    \/ \E pc \in ArithAddrs, o \in ArithOpcodes, a \in ArithBytes,
          m \in ArithBytes, st \in ArithStatus :
             InitCpuWith(pc, o, m, a, st)

\* CPU::step
CpuStep(n) ==
    /\ ~aborted
    /\ ops < n
    /\ \E r \in {CPU_step(cpu, bus)} :
          /\ aborted' = r.aborted
          /\ cpu' = IF r.aborted THEN cpu ELSE r.cpu
          /\ bus' = IF r.aborted THEN bus ELSE r.bus
          /\ last_op' = [op |-> "cpu", addr |-> cpu.pc, data |-> 0,
                         value |-> r.cycles, cpu |-> cpu, bus |-> bus]
    /\ ops' = ops + 1
    /\ UNCHANGED <<pixels, strobed, banked>>
    /\ UNCHANGED <<frame_vars, step_vars, saved>>

NextCpu == CpuStep(MaxCpuSteps)

SpecCpu == InitCpu /\ [][NextCpu]_vars

\* C22: a branch returns 2 cycles when it is not taken, 3 when it is taken
\* to the page of the following instruction, 4 when it is taken to another
\* page; the cycle counter grows by the same amount
C22_BranchTiming ==
    (last_op.op = "cpu" /\ ~aborted
     /\ MemGet(last_op.cpu.ram, last_op.addr) \in BranchOpcodes) =>
        LET before == last_op.cpu
            o == MemGet(before.ram, last_op.addr)
            off == MemGet(before.ram, last_op.addr + 1)
            next == last_op.addr + 2
            target == IF off < 128 THEN (next + off) % U16
                      ELSE (next + off - 256 + U16) % U16
            flag == IF o \in {16, 48} THEN FLAG_N
                    ELSE IF o \in {80, 112} THEN FLAG_V
                    ELSE IF o \in {144, 176} THEN FLAG_C
                    ELSE FLAG_Z
            taken == (Bit(before.status, flag) = 1)
                        = (o \in {48, 112, 176, 240})
            expected == IF ~taken THEN 2
                        ELSE IF target \div 256 = next \div 256 THEN 3
                        ELSE 4
        IN  /\ last_op.value = expected
            /\ cpu.cycles = before.cycles + expected
            /\ cpu.pc = IF taken THEN target ELSE next

\* a taken branch whose target lies on another page than the following
\* instruction, in both directions
C22_Witness ==
    /\ last_op.op = "cpu"
    /\ ~aborted
    /\ MemGet(last_op.cpu.ram, last_op.addr) \in BranchOpcodes
    /\ last_op.value = 4
    /\ last_op.addr = 254
    /\ cpu.pc = 253

\* C23: ADC leaves A = (a + m + c) mod 256, C the carry out of bit 7, V the
\* signed overflow, Z and N from the result; SBC on (a, m, c) leaves what
\* ADC leaves on (a, m XOR $FF, c); the D flag changes nothing
C23_AdcSbc ==
    (last_op.op = "cpu" /\ ~aborted /\ ops = 1
     /\ MemGet(last_op.cpu.ram, last_op.addr) \in ArithOpcodes) =>
        LET before == last_op.cpu
            a == before.a
            operand == MemGet(before.ram, last_op.addr + 1)
            m == IF MemGet(before.ram, last_op.addr) = 105 THEN operand
                 ELSE BitXor(operand, 255)
            c == Bit(before.status, FLAG_C)
            r == (a + m + c) % 256
        IN  /\ cpu.a = r
            /\ Bit(cpu.status, FLAG_C) = (IF a + m + c > 255 THEN 1 ELSE 0)
            /\ Bit(cpu.status, FLAG_V)
                  = (IF BitAnd(BitAnd(BitXor(a, r), BitXor(m, r)), 128) # 0
                     THEN 1 ELSE 0)
            /\ Bit(cpu.status, FLAG_Z) = (IF r = 0 THEN 1 ELSE 0)
            /\ Bit(cpu.status, FLAG_N) = (IF r > 127 THEN 1 ELSE 0)
            /\ \A bit \in {FLAG_I, 3, FLAG_B, FLAG_U} :
                  Bit(cpu.status, bit) = Bit(before.status, bit)

\* SBC with the D flag set and a borrow: $80 - $01 - 1 = $7E, V and C set
C23_Witness ==
    /\ last_op.op = "cpu"
    /\ ~aborted
    /\ ops = 1
    /\ MemGet(last_op.cpu.ram, last_op.addr) = 233
    /\ last_op.cpu.a = 128
    /\ MemGet(last_op.cpu.ram, last_op.addr + 1) = 1
    /\ Bit(last_op.cpu.status, 3) = 1
    /\ Bit(last_op.cpu.status, FLAG_C) = 0
    /\ cpu.a = 126
    /\ Bit(cpu.status, FLAG_V) = 1
    /\ Bit(cpu.status, FLAG_C) = 1

(***************************************************************************)
(* Restore with preserve lists: a program writes work RAM and PPU memory,  *)
(* the host takes a snapshot at some point and restores it later with      *)
(* lists of addresses to keep                                              *)
(***************************************************************************)
\* writes of the program
MaxPreserveOps == 8

\* Console::restore_snapshot, `restore preserved addresses' in the CPU:
\* write_byte(addrs[k], values[k]) for k, k + 1, ...
RECURSIVE WriteBackCpu(_, _, _, _)
WriteBackCpu(st, addrs, values, k) ==
    IF k > Len(addrs) \/ st.aborted THEN st
    ELSE Bind(CPU_write_byte(st.cpu, st.bus, addrs[k], values[k]),
              LAMBDA w :
                WriteBackCpu(Machine(w.cpu, w.bus, w.aborted), addrs,
                             values, k + 1))

\* Console::restore_snapshot, `restore preserved addresses' in the PPU
RECURSIVE WriteBackPpu(_, _, _, _)
WriteBackPpu(st, addrs, values, k) ==
    IF k > Len(addrs) \/ st.aborted THEN st
    ELSE Bind(PPU_write_byte(st.bus.ppu, st.bus.mapper, addrs[k], values[k]),
              LAMBDA w :
                WriteBackPpu(Machine(st.cpu,
                                     [st.bus EXCEPT !.ppu = w.ppu,
                                                    !.mapper = w.mapper],
                                     w.aborted),
                             addrs, values, k + 1))

\* Console::restore_snapshot on the ConsoleState (c, b): the listed
\* addresses are read, the state is replaced by the snapshot, the bytes
\* read are written into it
restore_snapshot(c, b, snapshot, cpu_ignore, ppu_ignore) ==
    LET cpu_reads == [k \in DOMAIN cpu_ignore |->
                         CPU_read_byte(c, b, cpu_ignore[k])]
        ppu_reads == [k \in DOMAIN ppu_ignore |->
                         PPU_read_byte(b.ppu, b.mapper, ppu_ignore[k])]
    IN  IF (\E k \in DOMAIN cpu_ignore : cpu_reads[k].aborted)
           \/ (\E k \in DOMAIN ppu_ignore : ppu_reads[k].aborted)
        THEN Machine(c, b, TRUE)
        ELSE Bind(WriteBackCpu(Machine(snapshot.cpu, snapshot.bus, FALSE),
                               cpu_ignore,
                               [k \in DOMAIN cpu_ignore |->
                                   cpu_reads[k].value], 1),
                  LAMBDA st :
                    WriteBackPpu(st, ppu_ignore,
                                 [k \in DOMAIN ppu_ignore |->
                                     ppu_reads[k].value], 1))

\* The k-th write of the program: work RAM at $0001 or through its mirror
\* $0801, then PPUADDR twice and PPUDATA once ($3F10 palette, $2010
\* nametable or $0010 pattern table), and the same again with other data
PreserveWrites(k) ==
    CASE k = 0 -> {<<1, 5>>, <<2049, 6>>}
      [] k \in {1, 5} -> {<<8198, 63>>, <<8198, 32>>, <<8198, 0>>}
      [] k \in {2, 6} -> {<<8198, 16>>}
      [] k = 3 -> {<<8199, 7>>}
      [] k = 4 -> {<<1, 8>>}
      [] k = 7 -> {<<8199, 9>>}
      [] OTHER -> {<<1, k % 256>>}

\* preserve lists <<cpu_ignore, ppu_ignore>>: $0001 with its mirror $0801
\* and $3F10 with its mirror $3F00; $0001 twice and $2010 with its mirror
\* $3010; the pattern table byte $0010; $0801 and the nametable byte $2810
PreserveLists ==
    {<< <<1, 2049>>, <<16144, 16128>> >>,
     << <<1, 1>>, <<8208, 12304>> >>,
     << <<>>, <<16>> >>,
     << <<2049>>, <<10256>> >>}

\* cartridges with CHR-RAM: vertical mirroring, four-screen mirroring
PreserveCartridges ==
    {[mapper_id |-> 2, prg_banks |-> 2, chr_ram |-> TRUE,
      mirror |-> "Vertical", program |-> <<>>],
     [mapper_id |-> 0, prg_banks |-> 1, chr_ram |-> TRUE,
      mirror |-> "FourScreen", program |-> <<>>]}

\* Console::snapshot
Snapshot ==
    /\ ~aborted
    /\ saved = <<>>
    /\ saved' = << [cpu |-> cpu, bus |-> bus] >>
    /\ last_op' = [op |-> "snapshot", addr |-> 0, data |-> 0, value |-> 0,
                   cpu |-> cpu, bus |-> bus]
    /\ UNCHANGED <<aborted, cpu, bus, pixels, ops, strobed, banked>>
    /\ UNCHANGED <<frame_vars, step_vars>>

\* Console::restore_snapshot(saved, cpu_ignore, ppu_ignore); the snapshot
\* is moved into the call.  last_op keeps the lists and the snapshot.
RestoreSnapshot(cpu_ignore, ppu_ignore) ==
    /\ ~aborted
    /\ saved # <<>>
    /\ \E r \in {restore_snapshot(cpu, bus, saved[1], cpu_ignore,
                                   ppu_ignore)} :
          /\ aborted' = r.aborted
          /\ cpu' = IF r.aborted THEN cpu ELSE r.cpu
          /\ bus' = IF r.aborted THEN bus ELSE r.bus
    /\ last_op' = [op |-> "restore", addr |-> cpu_ignore,
                   data |-> ppu_ignore, value |-> saved[1],
                   cpu |-> cpu, bus |-> bus]
    /\ saved' = <<>>
    /\ UNCHANGED <<pixels, ops, strobed, banked>>
    /\ UNCHANGED <<frame_vars, step_vars>>

InitPreserve ==
    /\ FrameReset
    /\ \E cartridge \in PreserveCartridges : BusReset(cartridge)

NextPreserve ==
    \/ \E w \in PreserveWrites(ops) : CpuWrite(w[1], w[2], MaxPreserveOps)
    \/ Snapshot
    \/ \E l \in PreserveLists : RestoreSnapshot(l[1], l[2])

SpecPreserve == InitPreserve /\ [][NextPreserve]_vars

\* the cells of work RAM, the nametables, the palette and the pattern table
\* that the preserve lists of the last restore name
ListedRam == {RamIndex(last_op.addr[k]) : k \in DOMAIN last_op.addr}

ListedNametable ==
    {PPU_mirror_nametable(a, Mapper_mirror(bus.mapper)) :
        a \in {last_op.data[k] : k \in DOMAIN last_op.data} \cap 8192..16127}

ListedPalette ==
    {PPU_mirror_palette(a % 32) :
        a \in {last_op.data[k] : k \in DOMAIN last_op.data} \cap 16128..65535}

ListedChr == {last_op.data[k] : k \in DOMAIN last_op.data} \cap 0..8191

\* C24: after restore_snapshot(S, cpu_list, ppu_list) every listed address
\* reads what it read in the console right before the restore, and every
\* other part of the ConsoleState equals S
C24_RestorePreserves ==
    (last_op.op = "restore") =>
        LET S == last_op.value
        IN  /\ ~aborted
            /\ \A k \in DOMAIN last_op.addr :
                  CPU_read_byte(cpu, bus, last_op.addr[k]).value
                    = CPU_read_byte(last_op.cpu, last_op.bus,
                                    last_op.addr[k]).value
            /\ \A k \in DOMAIN last_op.data :
                  PPU_read_byte(bus.ppu, bus.mapper, last_op.data[k]).value
                    = PPU_read_byte(last_op.bus.ppu, last_op.bus.mapper,
                                    last_op.data[k]).value
            /\ [cpu EXCEPT !.ram = ZeroMem] = [S.cpu EXCEPT !.ram = ZeroMem]
            /\ \A i \in (0..(RAM_LEN - 1)) \ ListedRam :
                  MemGet(cpu.ram, i) = MemGet(S.cpu.ram, i)
            /\ [bus EXCEPT !.ppu.nametables = ZeroMem,
                           !.ppu.palette_ram = ZeroMem,
                           !.mapper.chr = ZeroMem]
                  = [S.bus EXCEPT !.ppu.nametables = ZeroMem,
                                  !.ppu.palette_ram = ZeroMem,
                                  !.mapper.chr = ZeroMem]
            /\ \A i \in (0..(NAMETABLES_LEN - 1)) \ ListedNametable :
                  MemGet(bus.ppu.nametables, i)
                    = MemGet(S.bus.ppu.nametables, i)
            /\ \A i \in (0..31) \ ListedPalette :
                  bus.ppu.palette_ram[i] = S.bus.ppu.palette_ram[i]
            /\ \A i \in (0..(CHR_BANK_SIZE - 1)) \ ListedChr :
                  MemGet(bus.mapper.chr, i) = MemGet(S.bus.mapper.chr, i)

(***************************************************************************)
(* Loading a ROM image: the host reads the 16-byte iNES header of a        *)
(* complete file and builds the console from the cartridge                 *)
(***************************************************************************)
\* ROM images loaded in a behaviour
MaxLoads == 1

\* ines.rs MAGIC: 'N' 'E' 'S' $1A
MAGIC == <<78, 69, 83, 26>>

\* INESHeader::parse on the 16 header bytes (buffer[1] is byte 0): <<>> for
\* None, <<header>> for Some.  The mapper field is assigned twice.
INESHeader_parse(buffer) ==
    IF SubSeq(buffer, 1, 4) # MAGIC THEN <<>>
    ELSE << [prg_banks |-> buffer[5],
             chr_banks |-> buffer[6],
             mirror |-> BitAnd(buffer[7], 1) # 0,
             has_battery |-> BitAnd(buffer[7], 4) # 0,
             has_trainer |-> BitAnd(buffer[7], 4) # 0,
             four_screen_mirror |-> BitAnd(buffer[7], 8) # 0,
             mapper |-> buffer[8] \div 16] >>

\* INESHeader::read on a file that holds every bank the header announces:
\* <<>> for None, <<cartridge>> for Some
INESHeader_read(header) ==
    IF header.has_trainer THEN <<>>
    ELSE << [prg_banks |-> header.prg_banks,
             chr_ram |-> header.chr_banks = 0,
             mirror |-> IF header.four_screen_mirror THEN "FourScreen"
                        ELSE IF header.mirror THEN "Vertical"
                        ELSE "Horizontal"] >>

\* ines::load: <<>> for None, <<[cartridge, mapper]>> for Some
ines_load(buffer) ==
    LET header == INESHeader_parse(buffer)
    IN  IF header = <<>> THEN <<>>
        ELSE LET cartridge == INESHeader_read(header[1])
             IN  IF cartridge = <<>> THEN <<>>
                 ELSE << [cartridge |-> cartridge[1],
                          mapper |-> header[1].mapper] >>

\* header bytes 6 and 7 of the images, and a first byte that is or is not
\* the magic's
Byte6Samples == {0, 1, 4, 8, 9, 16, 32, 33, 48, 240}

Byte7Samples == {0, 1, 8, 16, 32, 64, 240}

FirstByteSamples == {78, 77}

\* main.rs: load(..).expect(..), cartridge::new(c, m).unwrap(),
\* Console::new(mapper); a None panics.  last_op keeps the header read and
\* what load returned.
LoadRom(buffer, n) ==
    /\ ~aborted
    /\ ops < n
    /\ \E r \in {ines_load(buffer)} :
          /\ last_op' = [op |-> "load", addr |-> 0, data |-> buffer,
                         value |-> r, cpu |-> cpu, bus |-> bus]
          /\ IF r = <<>> \/ r[1].mapper \notin {0, 2}
             THEN aborted' = TRUE /\ UNCHANGED <<cpu, bus>>
             ELSE \E b \in {MemoryBus_new(
                               [mapper_id |-> r[1].mapper,
                                prg_banks |-> r[1].cartridge.prg_banks,
                                chr_ram |-> r[1].cartridge.chr_ram,
                                mirror |-> r[1].cartridge.mirror,
                                program |-> <<>>])} :
                    \E m \in {CPU_reset(CPU_default, b)} :
                       /\ cpu' = m.cpu
                       /\ bus' = m.bus
                       /\ aborted' = FALSE
    /\ ops' = ops + 1
    /\ UNCHANGED <<pixels, strobed, banked>>
    /\ UNCHANGED <<frame_vars, step_vars, saved>>

InitInes == FrameReset /\ BusReset(DefaultCartridge)

NextInes ==
    \E first \in FirstByteSamples, prg \in 1..2, chr \in 0..1,
       byte6 \in Byte6Samples, byte7 \in Byte7Samples :
          LoadRom(<<first, 69, 83, 26, prg, chr, byte6, byte7,
                    0, 0, 0, 0, 0, 0, 0, 0>>, MaxLoads)

SpecInes == InitInes /\ [][NextInes]_vars

\* C25: for a header with valid magic, load returns the mapper id
\* (byte7 & $F0) | (byte6 >> 4)
C25_MapperNumber ==
    (last_op.op = "load" /\ SubSeq(last_op.data, 1, 4) = MAGIC) =>
        /\ last_op.value # <<>>
        /\ last_op.value[1].mapper
             = BitOr(BitAnd(last_op.data[8], 240), last_op.data[7] \div 16)

(***************************************************************************)
(* Claims about the rewind tape's run lists and checkpoints                *)
(***************************************************************************)
\* a step of the console that is a pop_back returning Some
IsPopBack == console'.tape.frames = console.tape.frames - 1

\* C26: every frame pop_back re-simulates uses up one unit of its run's
\* count (expanded snapshots plus remaining counts stay constant), and no
\* exhausted run (count 0) is left in the working area.
C26_RunConsumption ==
    [][(IsPopBack /\ resim' # <<>>) =>
          LET before == console.tape.previous_checkpoint
              after == console'.tape.previous_checkpoint
          IN  /\ Len(after[1]) + SumCounts(after[2])
                   = Len(before[1]) + SumCounts(before[2])
              /\ \A i \in 1..Len(after[2]) : after[2][i].count > 0]_vars

(***************************************************************************)
(* Long recordings: push-only runs that fill a run of the RLE list         *)
(***************************************************************************)
\* largest initial_step of a long recording: its first chunk holds more
\* than U8_MAX frames after the base
MaxRleStep == 257

\* frames recorded: enough to finalize the first chunk of the largest step
RleFrames == 2 * MaxRleStep + 2

RleSteps == {1, MaxRleStep}

\* frames before which the host may change the button mask
RleFlipFrames == {3, MaxRleStep \div 2}

\* the host changes the buttons before one of the chosen frames
RleUpdateButtons(b) ==
    /\ Len(console.state.hist) + 1 \in RleFlipFrames
    /\ b # console.state.button_state
    /\ UpdateButtons(b)

InitRle ==
    /\ BusReset(DefaultCartridge)
    /\ \E s \in RleSteps : console = Console_new(s, 0)
    /\ other = console
    /\ pushed = <<>>
    /\ popped = <<>>
    /\ phase = "push"
    /\ resim = <<>>
    /\ synced = FALSE
    /\ aborted = FALSE

NextRle ==
    \/ \E b \in ButtonSamples : RleUpdateButtons(b)
    \/ NextScreenUpTo(RleFrames)

SpecRle == InitRle /\ [][NextRle]_vars

\* the masks a run list stands for, front to back
RECURSIVE Expand(_)
Expand(rle) ==
    IF rle = <<>> THEN <<>>
    ELSE [i \in 1..rle[1].count |-> rle[1].buttons] \o Expand(Tail(rle))

\* frame number of a recorded state
FrameOf(state) == Len(state.hist)

\* frame at which the zone after the n-th stored checkpoint starts: the next
\* stored checkpoint, else the working area, else the cache
ChunkEnd(tape, n) ==
    IF n < Len(tape.stored_checkpoints)
    THEN FrameOf(tape.stored_checkpoints[n + 1].base_state)
    ELSE IF tape.previous_checkpoint[1] # <<>>
    THEN FrameOf(tape.previous_checkpoint[1][1][1])
    ELSE FrameOf(tape.snapshot_cache[1][1])

\* C27: in a push-only run the run list of every stored checkpoint expands
\* to the button masks of the chunk's frames after the base, in order; every
\* count is in 1..255, and two neighbouring runs carry the same mask only
\* when the later one is full (count 255).
C27_RleEncoding ==
    phase = "push" =>
        \A n \in 1..Len(console.tape.stored_checkpoints) :
            LET checkpoint == console.tape.stored_checkpoints[n]
                rle == checkpoint.buttons_rle
                base == FrameOf(checkpoint.base_state)
            IN  /\ Expand(rle)
                     = SubSeq(console.state.hist, base + 1,
                              ChunkEnd(console.tape, n) - 1)
                /\ \A i \in 1..Len(rle) : rle[i].count \in 1..U8_MAX
                /\ \A i \in 1..(Len(rle) - 1) :
                      rle[i].buttons = rle[i + 1].buttons
                          => rle[i + 1].count = U8_MAX

\* a stored checkpoint whose stretch of one mask was split into two runs
C27_Witness ==
    /\ phase = "push"
    /\ \E n \in 1..Len(console.tape.stored_checkpoints) :
          LET rle == console.tape.stored_checkpoints[n].buttons_rle
          IN  \E i \in 1..(Len(rle) - 1) :
                 /\ rle[i].buttons = rle[i + 1].buttons
                 /\ rle[i + 1].count = U8_MAX

\* frame of the base of the n-th stored checkpoint when chunks are adjacent
\* and the n-th covers initial_step + n - 1 frames
RECURSIVE BaseFrame(_, _)
BaseFrame(initial_step, n) ==
    IF n = 1 THEN 1
    ELSE BaseFrame(initial_step, n - 1) + initial_step + n - 2

\* C28: in a push-only run on a tape created with initial_step C (the
\* cache_size of the console as created, kept in `other') the n-th stored
\* checkpoint covers C + n - 1 frames, its base is the pushed state of the
\* frame right after the chunk before it, and the first base is frame 1.
C28_CheckpointGeometry ==
    phase = "push" =>
        LET C == other.tape.cache_size
            stored == console.tape.stored_checkpoints
        IN  \A n \in 1..Len(stored) :
               /\ CheckpointFrames(stored[n]) = C + n - 1
               /\ FrameOf(stored[n].base_state) = BaseFrame(C, n)
               /\ stored[n].base_state = pushed[BaseFrame(C, n)]
               /\ ChunkEnd(console.tape, n)
                    = BaseFrame(C, n) + CheckpointFrames(stored[n])

\* three chunks of growing size are stored
C28_Witness ==
    /\ phase = "push"
    /\ Len(console.tape.stored_checkpoints) >= 3
    /\ CheckpointFrames(console.tape.stored_checkpoints[3])
         = other.tape.cache_size + 2

(***************************************************************************)
(* Record, rewind, record again                                            *)
(***************************************************************************)
\* frames of a recording that is rewound and then continued
MaxReplayFrames == 11

\* frames before which the host may change the button mask
ReplayFlipFrames == {3, 6}

ReplayUpdateButtons(b) ==
    /\ Len(console.state.hist) + 1 \in ReplayFlipFrames
    /\ b # console.state.button_state
    /\ UpdateButtons(b)

\* the host holds the rewind key only before it records again
ReplayRewind == phase # "mixed" /\ Rewind

NextReplay ==
    \/ \E b \in ButtonSamples : ReplayUpdateButtons(b)
    \/ NextScreenUpTo(MaxReplayFrames)
    \/ ReplayRewind

SpecReplay == InitFrame /\ [][NextReplay]_vars

\* a pop_back that pops a stored checkpoint into the working area
ReloadsCheckpoint ==
    /\ IsPopBack
    /\ Len(console'.tape.stored_checkpoints)
         < Len(console.tape.stored_checkpoints)

\* the working area as pop_back's match on (decoded_snapshots.last(),
\* buttons_rle.front_mut()) finds it
WorkingAreaAtMatch ==
    PullDecoded([console.tape EXCEPT !.snapshot_cache = Front(@)])
        .previous_checkpoint

\* C29: a pop_back that pops a stored checkpoint finds the working area
\* without expanded snapshots and without runs, and the working area it was
\* called on holds no run with frames still to replay.
C29_ReloadGuard ==
    [][ReloadsCheckpoint =>
          /\ WorkingAreaAtMatch = << <<>>, <<>> >>
          /\ SumCounts(console.tape.previous_checkpoint[2]) = 0]_vars

\* a push_back that finds the snapshot cache full
IsRollover ==
    /\ console'.tape.frames = console.tape.frames + 1
    /\ Len(console.tape.snapshot_cache) >= console.tape.cache_size

\* C30: when push_back swaps the full cache into the working area, the
\* working area (after this call's packing step) holds no expanded snapshot
\* and no run, cache_size grows by 1 and the cache holds only the new frame.
C30_CacheRollover ==
    [][IsRollover =>
          /\ PackPrevious(console.tape).previous_checkpoint
               = << <<>>, <<>> >>
          /\ console'.tape.cache_size = console.tape.cache_size + 1
          /\ console'.tape.snapshot_cache
               = << <<console'.state, console'.state.button_state>> >>]_vars

(***************************************************************************)
(* Controller read cursor                                                  *)
(***************************************************************************)
\* CPU operations on the controller port
MaxCursorOps == 11

\* strobe writes with bit 0 set and clear, other bits set and clear
CursorData == {0, 1, 254, 255}

NextCursor ==
    \/ \E m \in MaskSamples : ControllerUpdateButtons(m, MaxCursorOps)
    \/ \E d \in CursorData : CpuWrite(16406, d, MaxCursorOps)
    \/ CpuRead(16406, MaxCursorOps)

SpecCursor == InitController /\ [][NextCursor]_vars

\* C31: the read cursor is in 0..8 and is 0 while the strobe is high; a read
\* of $4016 under a high strobe returns bit 0 of the mask and leaves the
\* cursor alone; a write with bit 0 clear changes only the strobe.
C31_CursorInvariant ==
    /\ bus.controller.index \in 0..8
    /\ bus.controller.strobe => bus.controller.index = 0
    /\ (/\ last_op.op = "read"
        /\ last_op.addr = 16406
        /\ last_op.bus.controller.strobe) =>
          /\ ~aborted
          /\ last_op.value = Bit(last_op.bus.controller.button_state, 0)
          /\ bus = last_op.bus
    /\ (/\ last_op.op = "write"
        /\ last_op.addr = 16406
        /\ last_op.data % 2 = 0) =>
          /\ ~aborted
          /\ cpu = last_op.cpu
          /\ bus = [last_op.bus EXCEPT !.controller.strobe = FALSE]

\* button A read under a high strobe, late in the run
C31_Witness ==
    /\ last_op.op = "read"
    /\ last_op.addr = 16406
    /\ last_op.bus.controller.strobe
    /\ last_op.bus.controller.button_state = 165
    /\ last_op.value = 1
    /\ ops >= 5

(***************************************************************************)
(* PPUADDR write pair                                                      *)
(***************************************************************************)
\* CPU operations on the PPU address port
MaxAddrOps == 4

\* bytes written to $2006: bits 6 and 7 clear, set one at a time, all set
AddrData == {0, 1, 63, 64, 128, 255}

NextAddr ==
    \/ \E d \in AddrData : CpuWrite(8198, d, MaxAddrOps)
    \/ \E d \in {0, 3} : CpuWrite(8192, d, MaxAddrOps)
    \/ CpuRead(8194, MaxAddrOps)

SpecAddr == InitController /\ [][NextAddr]_vars

\* C32: a write of h to $2006 with w clear puts h's low six bits into bits
\* 8..13 of t, clears bit 14 of t, keeps v and sets w; the write of l that
\* follows sets the low byte of t, copies t to v and clears w, and v is then
\* a 14-bit address.
C32_AddrWritePair ==
    (last_op.op = "write" /\ last_op.addr = 8198) =>
        /\ ~aborted
        /\ IF ~last_op.bus.ppu.w
           THEN /\ (bus.ppu.t \div 256) % 128 = last_op.data % 64
                /\ bus.ppu.v = last_op.bus.ppu.v
                /\ bus.ppu.w
           ELSE /\ bus.ppu.t
                     = (last_op.bus.ppu.t \div 256) * 256 + last_op.data
                /\ bus.ppu.v = bus.ppu.t
                /\ ~bus.ppu.w
                /\ bus.ppu.v < 16384

(***************************************************************************)
(* Sprite gate: as the sprite-zero runs, with PPUCTRL bit 4 and PPUMASK    *)
(* bit 4 written set or clear                                              *)
(***************************************************************************)
\* bus operations of a behaviour: four register writes and the dots
MaxGateOps == 400

\* The register write made as the k-th operation
GateWrites(k) ==
    CASE k = 0 -> {<<8192, 0>>, <<8192, 16>>}
      [] k = 1 -> {<<8193, 8>>, <<8193, 24>>}
      [] OTHER -> SpriteWrites(k)

NextGate ==
    \/ \E w \in GateWrites(ops) : CpuWrite(w[1], w[2], MaxGateOps)
    \/ ops >= 4 /\ PpuStep(MaxGateOps)

SpecGate == InitSprite /\ [][NextGate]_vars

\* render_pixel: the colour index of the pixel when no sprite takes part
BackgroundOnlyColor(ppu) ==
    LET fine_x == ((ppu.cycle_in_scanline - 1) % 8) + ppu.fine_x
        tile == ppu.processed_tile[IF fine_x >= 8 THEN 2 ELSE 1]
    IN  PPU_multiplex_colors(RenderedTilePalette(ppu),
                             (tile.palette % 4) * 4, 0, 16, FALSE)[2]

\* C33: a pixel rendered while PPUMASK bit 4 is clear is the background
\* pixel and the step does not set PPUSTATUS bit 6, whatever PPUCTRL holds.
C33_SpriteGate ==
    LET p == PPU_apply_last_read(last_op.bus.ppu)
    IN  (/\ last_op.op = "step"
         /\ ~aborted
         /\ p.scanline <= 239
         /\ p.cycle_in_scanline >= 1
         /\ p.cycle_in_scanline <= 256
         /\ rendering_enabled(p.mask_reg)
         /\ Bit(p.mask_reg, 4) = 0) =>
            /\ Bit(bus.ppu.status_reg, 6) = Bit(p.status_reg, 6)
            /\ MemGet(pixels, <<p.scanline, p.cycle_in_scanline - 1>>)
                 = p.palette_ram[PPU_mirror_palette(BackgroundOnlyColor(p))]

(***************************************************************************)
(* The history a tape stands for                                           *)
(***************************************************************************)
\* the states pop_back's re-simulation yields from state under the masks
RECURSIVE Resimulate(_, _)
Resimulate(state, masks) ==
    IF masks = <<>> THEN <<>>
    ELSE LET next == wait_vblank(Controller_update_buttons(state, masks[1]))
         IN  <<next>> \o Resimulate(next, Tail(masks))

\* the states of the stored checkpoints, oldest first
RECURSIVE StoredStates(_)
StoredStates(stored) ==
    IF stored = <<>> THEN <<>>
    ELSE <<stored[1].base_state>>
         \o Resimulate(stored[1].base_state, Expand(stored[1].buttons_rle))
         \o StoredStates(Tail(stored))

\* the states of the working area: the expanded snapshots, then the frames
\* its runs stand for
WorkingStates(previous_checkpoint) ==
    LET decoded == [i \in 1..Len(previous_checkpoint[1]) |->
                       previous_checkpoint[1][i][1]]
    IN  IF decoded = <<>> THEN <<>>
        ELSE decoded \o Resimulate(Last(decoded),
                                   Expand(previous_checkpoint[2]))

\* every state the tape stands for, oldest first
TapeStates(tape) ==
    StoredStates(tape.stored_checkpoints)
    \o WorkingStates(tape.previous_checkpoint)
    \o [i \in 1..Len(tape.snapshot_cache) |-> tape.snapshot_cache[i][1]]

\* C34: every two adjacent entries of the tape's history are consecutive
\* frames: the later one is the earlier one after one wait_vblank under the
\* later one's button mask.
C34_TapeContinuity ==
    LET h == TapeStates(console.tape)
    IN  \A i \in 1..(Len(h) - 1) :
           h[i + 1] = wait_vblank(
                         Controller_update_buttons(h[i],
                                                   h[i + 1].button_state))

\* C35: the frames counter (push_back calls minus pop_back calls that
\* returned a state) is never negative, pop_back returns None (the cache is
\* empty) exactly when the counter is 0, and it then leaves the tape alone.
C35_NoPhantomHistory ==
    /\ console.tape.frames >= 0
    /\ (console.tape.snapshot_cache = <<>>) <=> (console.tape.frames = 0)
    /\ (console.tape.snapshot_cache = <<>>) =>
          pop_back(console.tape, console.screen).tape = console.tape

(***************************************************************************)
(* Record, rewind, record again, next to the console as it was created     *)
(***************************************************************************)
InitGeometry ==
    /\ BusReset(DefaultCartridge)
    /\ \E s \in InitialStepSamples, rom \in WarmupSamples :
          console = Console_new(s, rom)
    /\ other = console
    /\ pushed = <<>>
    /\ popped = <<>>
    /\ phase = "push"
    /\ resim = <<>>
    /\ synced = FALSE
    /\ aborted = FALSE

SpecGeometry == InitGeometry /\ [][NextReplay]_vars

\* C36: cache_size is the initial_step the tape was created with (kept in
\* `other') plus the number of stored checkpoints, plus 1 when the working
\* area holds an expanded snapshot; it is never below initial_step.
C36_CacheSizeGeometry ==
    LET tape == console.tape
        initial_step == other.tape.cache_size
    IN  /\ tape.cache_size
             = initial_step + Len(tape.stored_checkpoints)
               + (IF tape.previous_checkpoint[1] # <<>> THEN 1 ELSE 0)
        /\ tape.cache_size >= initial_step

(***************************************************************************)
(* UxROM bank select                                                       *)
(***************************************************************************)
\* CPU operations on the cartridge space
MaxBankOps == 3

\* PRG bank counts of the UxROM cartridges
BankCounts == {1, 2, 16}

\* bank select bytes
BankData == {0, 1, 2, 15, 16, 255}

\* reads of the switchable and of the fixed bank
BankReads == {32768, 49151, 49152, 65535}

\* OAMDMA pages in the switchable and in the fixed bank
BankPages == {128, 191, 192}

InitBank ==
    /\ FrameReset
    /\ \E n \in BankCounts :
          BusReset([mapper_id |-> 2, prg_banks |-> n, chr_ram |-> TRUE,
                    mirror |-> "Vertical", program |-> <<>>])

NextBank ==
    \/ \E a \in {32768, 65535}, d \in BankData : CpuWrite(a, d, MaxBankOps)
    \/ \E a \in BankReads : CpuRead(a, MaxBankOps)
    \/ \E page \in BankPages : CpuWrite(16404, page, MaxBankOps)

SpecBank == InitBank /\ [][NextBank]_vars

\* C37: the selected lower bank is an existing PRG bank: no read of
\* $8000-$BFFF and no read_page of $80-$BF (an OAMDMA from those pages) is
\* made with a bank index at or above the number of PRG banks, and no such
\* read aborts.
C37_BankIndexSafety ==
    /\ bus.mapper.first_bank < bus.mapper.prg_banks
    /\ (last_op.op = "read" /\ last_op.addr \in 32768..49151) =>
          /\ last_op.bus.mapper.first_bank < last_op.bus.mapper.prg_banks
          /\ ~aborted
    /\ (/\ last_op.op = "write"
        /\ last_op.addr = 16404
        /\ last_op.data \in 128..191) =>
          last_op.bus.mapper.first_bank < last_op.bus.mapper.prg_banks

(***************************************************************************)
(* Nametable accesses through PPUADDR and PPUDATA                          *)
(***************************************************************************)
\* CPU operations: the PPUADDR pair, then PPUDATA reads and writes
MaxMirrorOps == 4

\* MirroringMode
MirroringModes ==
    {"Horizontal", "Vertical", "SingleScreenLowerBank",
     "SingleScreenUpperBank", "FourScreen"}

\* high bytes of the four nametables, their last pages and the mirror range
MirrorHigh == {32, 35, 36, 40, 43, 44, 47, 48, 62}

MirrorLow == {0, 255}

\* The CPU access made as the k-th operation
MirrorWrites(k) ==
    CASE k = 0 -> {<<8198, h>> : h \in MirrorHigh}
      [] k = 1 -> {<<8198, l>> : l \in MirrorLow}
      [] OTHER -> {<<8199, 0>>, <<8199, 170>>}

InitMirror ==
    /\ FrameReset
    /\ \E mode \in MirroringModes :
          BusReset([mapper_id |-> 0, prg_banks |-> 1, chr_ram |-> TRUE,
                    mirror |-> mode, program |-> <<>>])

NextMirror ==
    \/ \E w \in MirrorWrites(ops) : CpuWrite(w[1], w[2], MaxMirrorOps)
    \/ ops >= 2 /\ CpuRead(8199, MaxMirrorOps)

SpecMirror == InitMirror /\ [][NextMirror]_vars

\* C38: a PPUDATA access at a PPU address in $2000-$3EFF uses a nametable
\* index below 2048 and completes, in every mirroring mode.
C38_NametableIndexSafety ==
    (/\ last_op.addr = 8199
     /\ last_op.bus.ppu.v >= 8192
     /\ last_op.bus.ppu.v < 16128) =>
        /\ PPU_mirror_nametable(last_op.bus.ppu.v,
                                Mapper_mirror(last_op.bus.mapper))
             < NAMETABLES_LEN
        /\ ~aborted

(***************************************************************************)
(* Sprite-zero hit over the rest of its scanline                           *)
(***************************************************************************)
\* bus operations of a behaviour: four register writes, the dots of
\* scanline 0 and of scanline 1 up to sprite evaluation, two status reads
MaxPersistOps == 610

\* operation counts at which the CPU may read PPUSTATUS: right after the
\* hit, and before sprite evaluation
PersistReadOps == {360, 500}

NextPersist ==
    \/ \E w \in SpriteWrites(ops) : CpuWrite(w[1], w[2], MaxPersistOps)
    \/ ops >= 4 /\ PpuStep(MaxPersistOps)
    \/ ops \in PersistReadOps /\ CpuRead(8194, MaxPersistOps)

SpecPersist == InitSprite /\ [][NextPersist]_vars

\* C39: a PPU step other than the one at dot 1 of scanline 261, and a CPU
\* read of $2002, leave a set PPUSTATUS bit 6 set.
C39_ZeroHitPersists ==
    (/\ \/ /\ last_op.op = "step"
           /\ ~(/\ last_op.bus.ppu.scanline = PRE_RENDER_LINE
                /\ last_op.bus.ppu.cycle_in_scanline = 1)
        \/ last_op.op = "read" /\ last_op.addr = 8194
     /\ ~aborted
     /\ Bit(last_op.bus.ppu.status_reg, 6) = 1) =>
        Bit(bus.ppu.status_reg, 6) = 1

(***************************************************************************)
(* Termination of Console::next_screen: the host calls next_screen, the    *)
(* two loops of wait_vblank run ConsoleState::step until the call returns  *)
(***************************************************************************)
\* dots of a frame in which no dot is skipped
FRAME_DOTS == FRAME_LINES * SCANLINE_DOTS

\* LDA #$28; STA $2006; LDA #0; STA $2006; LDA #$08; STA $2001;
\* loop: JMP loop, with the handler RTI: the VRAM address is set to $2800
\* and the background is switched on
ProgramScroll ==
    Program(<<169, 40, 141, 6, 32, 169, 0, 141, 6, 32, 169, 8, 141, 1, 32,
              76, 15, 192>>, <<64>>)

\* the cartridges of ConsoleCartridges, and ProgramScroll on a cartridge
\* with vertical and on one with four-screen mirroring
TerminateCartridges ==
    ConsoleCartridges \cup
    {[mapper_id |-> 0, prg_banks |-> 1, chr_ram |-> FALSE,
      mirror |-> m, program |-> ProgramScroll] :
        m \in {"Vertical", "FourScreen"}}

InitTerminate ==
    /\ \E cartridge \in TerminateCartridges : BusReset(cartridge)
    /\ FrameReset

\* the loops of wait_vblank do not block: an iteration that can run runs,
\* and next_screen returns once the second loop is left; when next_screen
\* is called is up to the host
SpecTerminate ==
    /\ InitTerminate
    /\ [][NextConsole]_vars
    /\ WF_vars(ConsoleStep)
    /\ WF_vars(NextScreenReturn)

\* C40: every call of next_screen returns: each ConsoleState::step moves
\* the PPU forward, and the call has run at most 2 * 89342 dots when it
\* returns
C40_FrameTermination ==
    /\ [][(last_op'.op = "console" /\ last_op'.value >= 1) =>
            /\ ~aborted'
            /\ dots' > dots
            /\ DotIndex(bus'.ppu) > DotIndex(bus.ppu)]_vars
    /\ [](call.pos # "idle" => dots - call.since <= 2 * FRAME_DOTS)
    /\ (call.pos # "idle") ~> (call.pos = "idle")

====
